---- MODULE Spec2Model ----
(***************************************************************************)
(* Content-selection engine (cs_module): decision binder, slate            *)
(* generation, mission-record lifecycle and feedback reconciliation.       *)
(*                                                                         *)
(* The specifications share the definitions below:                         *)
(*   SpecBinder    the ProcessBinder driven through its public methods     *)
(*   SpecSlate     the first slate of a user, slot by slot, over every     *)
(*                 outcome of the bandits                                  *)
(*   SpecRecords   the selection records of a user who registers once      *)
(*   Spec          one user's update batches: mission selections, slate    *)
(*                 generation, 'sent' feedback, re-registration            *)
(*   SpecOrder     one batch of mission events in every order of arrival   *)
(*   SpecFeedback  'sent' and 'rated' events of prescribed and chosen      *)
(*                 missions, intervention bandit enabled or not            *)
(*   SpecRetry     passes that follow a pass that aborted                  *)
(*   SpecResources slates of missions that carry resources                 *)
(*   SpecConcurrent two update requests handled by two server threads      *)
(*   SpecBinderRace two threads inside the ProcessBinder                   *)
(*   SpecMalformed an update whose feedback holds malformed events         *)
(*   SpecConfig    construction under every configuration                  *)
(*   SpecClock     the TimeHandler and the parsers of client timestamps    *)
(*   SpecRead      reads of the selected contents between the batches      *)
(*   SpecEvict     the correlation cache filled through set_snapshot       *)
(*   SpecStore     the audit-record writes of the DataStorage              *)
(*   SpecFeedbackOrder one batch of feedback events, sorted and applied    *)
(*   SpecPlans     'sent' events that arrive after a later plan            *)
(*   SpecLearn     passes and feedback with the intervention bandit        *)
(*   SpecDisable   passes for a user a batch has disabled                  *)
(*   SpecBeta      the BernoulliBetaTS bandit                              *)
(*   SpecSchema    the feature vector under every schema of flags          *)
(***************************************************************************)
EXTENDS Integers, Sequences, FiniteSets, TLC

(***************************************************************************)
(* Bounds of the model                                                     *)
(***************************************************************************)
\* BINDER_PROC_CAP as configured for the modelled process (default 200000)
ProcCap == 1
\* number of snapshots the binder specification enqueues
MaxSnaps == 3

None == "None"
\* a feature vector is a tuple of numbers; Python's None is the empty tuple
NoFv == << >>

\* the item ids and mission ids 'sent' events carry in the binder specification
BinderRecs == {"SRc1", "SRc2"}
BinderMissions == {"SM1", "SM2"}

\* the resources of the catalogue
Resources == {"SRs1", "SRs2"}
\* the (item, mission) pairs of the snapshots the binder specification enqueues
BinderItems == {<<"SRc1", "SM1">>, <<"SRc1", "SM2">>}
\* the plan ids of the one user of the binder specification
BinderPlans == {1}
\* the feature vector the binder specification stores in its snapshots
BinderFv == <<1>>
\* correlation ids: one more than the cache holds
Pids == 1..(ProcCap + 1)

VARIABLES
    pending,    \* ProcessBinder.pending[user][plan]: plan -> queue of snapshots
    proc_map,   \* ProcessBinder.proc_map, in insertion order: <<[pid, snap], ...>>
    enqLog,     \* history: plan -> every snapshot enqueued under it, in order
    boundLog,   \* history: sid -> the correlation ids bind_on_sent returned it for
    user,       \* UserManager.users[u]: the User object of the one modelled user
    engine,     \* RecommendationEngine.selection_id[u] and the id generators
    plan,       \* the locals of the running _select_contents pass
    now,        \* TimeHandler.now, in days (in SpecClock the TimeHandler itself)
    hist        \* history: what the passes and the reconciler produced

binderVars == <<pending, proc_map, enqLog, boundLog>>
sysVars == <<user, engine, plan, now, hist>>
vars == <<pending, proc_map, enqLog, boundLog, user, engine, plan, now, hist>>

(***************************************************************************)
(* Sequence helpers                                                        *)
(***************************************************************************)
RemoveAt(s, i) == SubSeq(s, 1, i - 1) \o SubSeq(s, i + 1, Len(s))

Range(s) == {s[i] : i \in 1..Len(s)}

\* index of the first element of s satisfying Test, 0 if none
FirstIndex(s, Test(_)) ==
    IF \E i \in 1..Len(s) : Test(s[i])
    THEN CHOOSE i \in 1..Len(s) : Test(s[i]) /\ \A j \in 1..(i - 1) : ~Test(s[j])
    ELSE 0

(***************************************************************************)
(* ProcessBinder                                                           *)
(***************************************************************************)
\* a snapshot dict; sid stands for the identity of the dict object that
\* enqueue_decision received (0 for a dict built by set_snapshot)
Snapshot(sid, cc, rec, mission, fv) ==
    [sid |-> sid, content_count |-> cc, rec_id |-> rec, mission_id |-> mission,
     feature_vector |-> fv]

NoSnap == Snapshot(0, 0, None, None, NoFv)

ProcKeys(pm) == {pm[i].pid : i \in 1..Len(pm)}

\* proc_map[process_id] = snapshot on an insertion-ordered dict: an existing
\* key keeps its position, a new key goes last
DictPut(pm, pid, snap) ==
    IF pid \in ProcKeys(pm)
    THEN [i \in 1..Len(pm) |-> IF pm[i].pid = pid THEN [pid |-> pid, snap |-> snap] ELSE pm[i]]
    ELSE Append(pm, [pid |-> pid, snap |-> snap])

DictGet(pm, pid) ==
    IF pid \in ProcKeys(pm)
    THEN pm[CHOOSE i \in 1..Len(pm) : pm[i].pid = pid].snap
    ELSE NoSnap

DictPop(pm, pid) == SelectSeq(pm, LAMBDA e : e.pid # pid)

\* the test of the scan in bind_on_sent
SnapMatches(snap, rec, mission) ==
    snap.rec_id = rec /\ (mission = None \/ snap.mission_id = mission)

\* a scan that keeps the last match instead of the first
BindIndexLast(dq, rec, mission) ==
    IF \E i \in 1..Len(dq) : SnapMatches(dq[i], rec, mission)
    THEN CHOOSE i \in 1..Len(dq) :
            SnapMatches(dq[i], rec, mission)
            /\ \A j \in (i + 1)..Len(dq) : ~SnapMatches(dq[j], rec, mission)
    ELSE 0

\* position in dq of the snapshot bind_on_sent consumes, 0 if it binds nothing
BindIndex(dq, rec, mission) ==
    FirstIndex(dq, LAMBDA s : SnapMatches(s, rec, mission))

\* a scan that puts the bound snapshot back
BindRestKeep(dq, rec, mission) == dq

\* the deque bind_on_sent leaves behind
BindRest(dq, rec, mission) ==
    LET i == BindIndex(dq, rec, mission) IN IF i = 0 THEN dq ELSE RemoveAt(dq, i)

\* proc_map after bind_on_sent recorded the binding
BindRecord(pm, pid, snap) == DictPut(pm, pid, snap)

\* an eviction that drops the entry inserted last
RememberEvictsNewest(pm, pid, snap) ==
    LET pm1 == DictPut(pm, pid, snap) IN
    IF Len(pm1) > ProcCap THEN SubSeq(pm1, 1, Len(pm1) - 1) ELSE pm1

\* _remember
Remember(pm, pid, snap) ==
    LET pm1 == DictPut(pm, pid, snap) IN
    IF Len(pm1) > ProcCap /\ pm1[1].pid # pid THEN Tail(pm1) ELSE pm1

\* boundLog after bind_on_sent returned snap for pid
LogBound(log, snap, pid) ==
    IF snap.sid \in DOMAIN log
    THEN [log EXCEPT ![snap.sid] = Append(@, pid)]
    ELSE [s \in DOMAIN log \cup {snap.sid} |-> IF s = snap.sid THEN <<pid>> ELSE log[s]]

(***************************************************************************)
(* Configuration and catalogue                                             *)
(***************************************************************************)
MAX_SAME_REC_SENT_PER_MISSION == 3
MAX_NUM_REC_PER_MISSION == 10
MIN_NUM_REC_PER_MISSION == 3
MAX_DISTINCT_REC_PER_MISSION == 4
\* timedelta(weeks=1), in days
WEEK == 7
\* the day count at which the days-in-programme feature saturates (12 * 7)
ND_DAYS == 84
\* the largest weekly mission frequency the encoder distinguishes
MF_MAX == 7

\* the recommendation catalogue: every item carries one intervention type,
\* given as its (1-based) position in INTERVENTION_TYPES
Recommendations ==
    {"SRc1", "SRc2", "SRc3", "SRc4", "SRc52", "SRc100", "SRc101"}

intervention_type(rec) ==
    CASE rec = "SRc1" -> 1
      [] rec = "SRc2" -> 1
      [] rec = "SRc3" -> 6
      [] rec = "SRc4" -> 7
      [] rec = "SRc52" -> 1
      [] rec = "SRc100" -> 2
      [] rec = "SRc101" -> 2

\* position of the id in Python's string order
RecRank(rec) ==
    CASE rec = "SRc1" -> 1
      [] rec = "SRc100" -> 2
      [] rec = "SRc101" -> 3
      [] rec = "SRc2" -> 4
      [] rec = "SRc3" -> 5
      [] rec = "SRc4" -> 6
      [] rec = "SRc52" -> 7

\* the mission catalogue and its weekly_frequency
Missions == {"SM1", "SM2"}

weekly_frequency(mission) == IF mission = "SM1" THEN 3 ELSE 5

MissionRank(mission) == IF mission = "SM1" THEN 1 ELSE 2

(***************************************************************************)
(* Arithmetic helpers                                                      *)
(***************************************************************************)
Clip(x, lo, hi) == IF x < lo THEN lo ELSE IF x > hi THEN hi ELSE x

RECURSIVE SumOver(_, _)
SumOver(f, S) ==
    IF S = {} THEN 0
    ELSE LET x == CHOOSE y \in S : TRUE IN f[x] + SumOver(f, S \ {x})

\* dict.get(key, 0) and dict[key] = value on a function with a growing domain
GetOr0(f, k) == IF k \in DOMAIN f THEN f[k] ELSE 0

Put(f, k, v) == [x \in DOMAIN f \cup {k} |-> IF x = k THEN v ELSE f[x]]

EmptyDict == << >>

(***************************************************************************)
(* RecommendationHistoryTracker                                            *)
(***************************************************************************)
\* tuple order of (timestamp, process_id, rec_id, mix, mission_id); the mix
\* is a function of the rec_id
HistLess(a, b) ==
    \/ a.ts < b.ts
    \/ a.ts = b.ts /\ a.pid < b.pid
    \/ a.ts = b.ts /\ a.pid = b.pid /\ RecRank(a.rec) < RecRank(b.rec)
    \/ a.ts = b.ts /\ a.pid = b.pid /\ a.rec = b.rec
         /\ MissionRank(a.mission) < MissionRank(b.mission)

\* bisect.insort: after every entry that is not greater
add_recommendation(h, e) ==
    LET k == Cardinality({i \in 1..Len(h) : ~HistLess(e, h[i])})
    IN  SubSeq(h, 1, k) \o <<e>> \o SubSeq(h, k + 1, Len(h))

\* get_count over the half-open window [lo, hi), rec = None counts every item
get_count(h, lo, hi, rec) ==
    Cardinality({i \in 1..Len(h) :
        lo <= h[i].ts /\ h[i].ts < hi /\ (rec = None \/ h[i].rec = rec)})

\* get_type_counters, the counter of one type
get_type_counter(h, lo, hi, type) ==
    Cardinality({i \in 1..Len(h) :
        lo <= h[i].ts /\ h[i].ts < hi /\ intervention_type(h[i].rec) = type})

(***************************************************************************)
(* encoding.py: the feature vector, by the numerators of its components    *)
(***************************************************************************)
get_num_intervention_days_encoding(days) == Clip(days, 0, ND_DAYS)

get_mission_frequency_encoding(mf) == Clip(mf, 1, MF_MAX) - 1

get_total_frequency_encoding(x, scheduled) ==
    Clip(x, 0, IF scheduled THEN MAX_NUM_REC_PER_MISSION - 1 ELSE MAX_NUM_REC_PER_MISSION)

\* the past value arrives divided by MAX_NUM_REC_PER_MISSION and is clipped
\* at MAX_NUM_REC_PER_MISSION: in counts, at their product
get_intervention_frequency_encoding(x, scheduled) ==
    IF scheduled THEN Clip(x, 0, MAX_NUM_REC_PER_MISSION - 1)
    ELSE Clip(x, 0, MAX_NUM_REC_PER_MISSION * MAX_NUM_REC_PER_MISSION)

get_recommendation_frequency_encoding(x, scheduled) ==
    Clip(x, 0, IF scheduled THEN MAX_SAME_REC_SENT_PER_MISSION - 1
                            ELSE MAX_SAME_REC_SENT_PER_MISSION)

get_prompted_encoding(prompted) == IF prompted THEN 1 ELSE 0

\* bias, ND, MF, TF past/scheduled, IT, IF past/scheduled, RF past/scheduled, PR
get_intervention_feature_vector(nd, mf, tfp, tfs, type, ifp, ifs, rfp, rfs, pr) ==
    << 1,
       get_num_intervention_days_encoding(nd),
       get_mission_frequency_encoding(mf),
       get_total_frequency_encoding(tfp, FALSE),
       get_total_frequency_encoding(tfs, TRUE),
       type,
       get_intervention_frequency_encoding(ifp, FALSE),
       get_intervention_frequency_encoding(ifs, TRUE),
       get_recommendation_frequency_encoding(rfp, FALSE),
       get_recommendation_frequency_encoding(rfs, TRUE),
       get_prompted_encoding(pr) >>

(***************************************************************************)
(* User                                                                    *)
(***************************************************************************)
\* a mission-selection record of selected_missions_and_contents
MissionRecord(mission, recs, ts) ==
    [mission |-> mission, recommendations |-> recs, selection_timestamp |-> ts,
     plan_required |-> TRUE, prescribed |-> FALSE, resources |-> << >>]

NoContents == [contents |-> << >>, mission_start_time |-> 0, plan_id |-> 0]

\* users.get(u) of an id that never registered
NoUser ==
    [exists |-> FALSE, selected_missions_and_contents |-> << >>,
     new_plan_required |-> FALSE, only_one_rec_already |-> {},
     history |-> << >>, selected_contents |-> NoContents,
     intervention_start_date |-> 0, missions_started |-> FALSE,
     eow_rec_id_to_fv |-> EmptyDict, previous_mission_score |-> 0,
     rating_history |-> << >>, received_resources |-> << >>, active |-> TRUE]

\* User.__init__ as add_users calls it
User(enrol_dt) == [NoUser EXCEPT !.exists = TRUE, !.intervention_start_date = enrol_dt]

\* clears the flag of the first matching record only
set_missions_plan_to_false_first(u, mission_ids) ==
    LET recs == u.selected_missions_and_contents
        k == FirstIndex(recs, LAMBDA r : r.mission \in mission_ids)
    IN  [u EXCEPT !.selected_missions_and_contents =
            [i \in 1..Len(recs) |-> IF i = k THEN [recs[i] EXCEPT !.plan_required = FALSE]
                                    ELSE recs[i]]]

set_missions_plan_to_false(u, mission_ids) ==
    [u EXCEPT !.selected_missions_and_contents =
        [i \in 1..Len(@) |->
            IF @[i].mission \in mission_ids THEN [@[i] EXCEPT !.plan_required = FALSE]
            ELSE @[i]]]

update_missions_and_contents(u, rec) ==
    [u EXCEPT !.selected_missions_and_contents = Append(@, rec),
              !.missions_started = TRUE,
              !.intervention_start_date =
                  IF u.missions_started THEN @ ELSE rec.selection_timestamp,
              !.new_plan_required = TRUE]

get_new_missions(u) ==
    SelectSeq(u.selected_missions_and_contents, LAMBDA r : r.plan_required)

\* the list of the first record of the mission, as a set (the lists carry no
\* duplicates and hold none of the seasonal items); empty if there is none
get_available_recommendations(u, mission) ==
    LET recs == u.selected_missions_and_contents
        k == FirstIndex(recs, LAMBDA r : r.mission = mission)
    IN  IF k = 0 THEN {} ELSE Range(recs[k].recommendations)

get_num_intervention_days(u, t) == t - u.intervention_start_date

\* leaves the other item of the exclusive pair available
update_avail_keep_pair(avail, only_one, sel) ==
    LET first52 == sel = "SRc52" /\ sel \in avail /\ "SRc52" \notin only_one
    IN  [avail |-> IF first52 THEN avail \ {"SRc52"} ELSE avail,
         only_one_rec_already |-> IF first52 THEN only_one \cup {"SRc52"} ELSE only_one]

\* update_avail_recommendations: the list it leaves and only_one_rec_already
update_avail_recommendations(avail, only_one, sel) ==
    LET first52 == sel = "SRc52" /\ sel \in avail /\ "SRc52" \notin only_one
        avail1 == IF first52 THEN avail \ {"SRc52"} ELSE avail
        other == IF sel = "SRc100" THEN "SRc101" ELSE "SRc100"
        avail2 == IF sel \in {"SRc100", "SRc101"} /\ sel \in avail1
                  THEN avail1 \ {other} ELSE avail1
    IN  [avail |-> avail2,
         only_one_rec_already |-> IF first52 THEN only_one \cup {"SRc52"} ELSE only_one]

\* index of the record mission_snapshot_at returns, 0 for None
mission_snapshot_at(u, mission, ts) ==
    LET recs == u.selected_missions_and_contents
        Ok(i) == recs[i].mission = mission /\ recs[i].selection_timestamp <= ts
    IN  IF \E i \in 1..Len(recs) : Ok(i)
        THEN CHOOSE i \in 1..Len(recs) :
                /\ Ok(i)
                /\ \A j \in 1..Len(recs) :
                      Ok(j) => \/ recs[j].selection_timestamp < recs[i].selection_timestamp
                               \/ (recs[j].selection_timestamp = recs[i].selection_timestamp
                                   /\ i <= j)
        ELSE 0

(***************************************************************************)
(* frequency_updaters.py, feature_builders.py, selector.py                 *)
(***************************************************************************)
\* a cap test that lets one more copy through
SameCapReachedLate(cnt) == cnt > MAX_SAME_REC_SENT_PER_MISSION

\* the test that takes an item off the available list
SameCapReached(cnt) == cnt >= MAX_SAME_REC_SENT_PER_MISSION

\* a distinct-item cap that never narrows the list
DistinctCapOff(avail, used) == avail

\* the available list after the distinct-item cap looked at the used ids
DistinctCap(avail, used) ==
    IF Cardinality(used) >= MAX_DISTINCT_REC_PER_MISSION THEN avail \cap used ELSE avail

\* update_frequency_offsets for the one mission of the pass: the per-item
\* counts, the offsets and the available list after sel was accepted
update_frequency_offsets(selCount, total, recOff, avail, sel) ==
    LET cnt == GetOr0(selCount, sel) + 1
        selCount1 == Put(selCount, sel, cnt)
        avail1 == IF SameCapReached(cnt) THEN avail \ {sel} ELSE avail
    IN  [selCount |-> selCount1, total |-> total + 1,
         recOff |-> Put(recOff, sel, GetOr0(recOff, sel) + 1),
         avail |-> DistinctCap(avail1, DOMAIN selCount1)]

\* get_intervention_frequency_scheduled: the scheduled count of the item's type
get_intervention_frequency_scheduled(type, recOff) ==
    SumOver(recOff, {r \in DOMAIN recOff : intervention_type(r) = type})

\* what get_mission_to_feature_vec_to_rec_ids does with {mission: avail}:
\* "empty" for an empty map, "raise" for the KeyError of line 70, else "ok"
FvMapState(u, mission, avail) ==
    LET um == get_new_missions(u) IN
    IF Len(um) = 0 THEN "empty"
    ELSE IF avail = {} THEN "empty"
    ELSE IF \A i \in 1..Len(um) : um[i].mission # mission THEN "raise"
    ELSE "ok"

\* the feature vector get_mission_to_feature_vec_to_rec_ids files rec under
FvOf(u, t, mission, rec, total, recOff, prompted) ==
    LET sel_ts == get_new_missions(u)[1].selection_timestamp
        lo == sel_ts - WEEK
        type == intervention_type(rec)
    IN  get_intervention_feature_vector(
            get_num_intervention_days(u, t),
            weekly_frequency(mission),
            get_count(u.history, lo, sel_ts, None),
            total,
            type,
            get_type_counter(u.history, lo, sel_ts, type),
            get_intervention_frequency_scheduled(type, recOff),
            get_count(u.history, lo, sel_ts, rec),
            GetOr0(recOff, rec),
            prompted)

\* select_recommendation: the ids the bandits choose among
Candidates(avail, only_one) ==
    IF "SRc52" \in avail
    THEN IF "SRc52" \notin only_one THEN {"SRc52"} ELSE avail \ {"SRc52"}
    ELSE avail

(***************************************************************************)
(* RecommendationEngine and ContentSelection._select_contents              *)
(***************************************************************************)
\* the locals of a pass that is not running; threads holds the locals of the
\* requests the server's threads are handling, heap the deque objects of
\* the binder they hold references to, store the locals of a DataStorage
\* write
IdlePlan ==
    [pc |-> "idle", mission |-> None, start |-> 0, slot |-> 0, numSlots |-> 0,
     count |-> 1, avail |-> {}, unchanged |-> {}, selCount |-> EmptyDict,
     total |-> 0, recOff |-> EmptyDict, selected |-> << >>,
     high |-> FALSE, resources |-> << >>,
     threads |-> << >>, heap |-> << >>, store |-> << >>]

\* self.selection_id without an entry for the user; next_plan and next_sid
\* number the uuids and the snapshot dicts in the order they are created.
\* The bandits the engine and the updater share are the type of the
\* intervention bandit and, for each bandit, the updates it has taken.
NoSelectionId ==
    [has_selection_id |-> FALSE, plan_id |-> 0, content_count |-> 1,
     next_plan |-> 1, next_sid |-> 1,
     intervention_mab_type |-> "LogisticLaplaceTS",
     intervention_mab |-> 0, recommendation_mab |-> 0, resource_mab |-> 0,
     resource_mab_type |-> "BernoulliBetaTS",
     recommendation_mab_type |-> "BernoulliBetaTS",
     reward_type |-> "thumbs", status |-> "running"]

\* self.selection_id[user_id] = {"plan_id": uuid4(), "content_count": 1}
rotate_plan_id(e) ==
    [e EXCEPT !.has_selection_id = TRUE, !.plan_id = e.next_plan,
              !.content_count = 1, !.next_plan = @ + 1]

get_current_plan_id(e) == IF e.has_selection_id THEN e ELSE rotate_plan_id(e)

\* get_resources_to_send with n resources selected: the counter restarts at
\* len(selected_resources)
get_resources_to_send(e, n) == [get_current_plan_id(e) EXCEPT !.content_count = n]

\* User.add_received_resource
add_received_resource(received, res) ==
    IF res \in Range(received) THEN received ELSE Append(received, res)

\* select_resource from the i-th plan-required record on, the resource bandit
\* choosing pick[i] for it: the items, the resources received after it, and
\* whether every choice was one the bandit was offered
RECURSIVE select_resource(_, _, _, _)
select_resource(nm, i, received, pick) ==
    IF i > Len(nm) THEN [ok |-> TRUE, selected |-> << >>, received |-> received]
    ELSE LET rids == SelectSeq(nm[i].resources, LAMBDA r : r \notin Range(received))
         IN  IF rids = << >> THEN select_resource(nm, i + 1, received, pick)
             ELSE LET rest == select_resource(nm, i + 1,
                                  add_received_resource(received, pick[i]), pick)
                  IN  [ok |-> pick[i] \in Range(rids) /\ rest.ok,
                       selected |-> << [id |-> pick[i], type |-> "resource",
                                        mission_id |-> nm[i].mission] >> \o rest.selected,
                       received |-> rest.received]

\* never forces a choice
select_anyway_never(count) == FALSE

\* forces one choice more
select_anyway_late(count) == count <= MIN_NUM_REC_PER_MISSION + 1

\* select_anyway as get_recommendations_to_send passes it; count is one more
\* than the number of items selected for the mission
select_anyway(count) == count <= MIN_NUM_REC_PER_MISSION

\* max(new_missions, key=selection_timestamp): the first of the latest
LatestNewMission(u) ==
    LET nm == get_new_missions(u)
        k == FirstIndex(nm, LAMBDA r :
                \A j \in 1..Len(nm) : nm[j].selection_timestamp <= r.selection_timestamp)
    IN  nm[k]

\* a feedback event of the payload; NoEvent before the first one
FeedbackEvent(name, type, id, mission, pid, ts, eow) ==
    [event_name |-> name, content_type |-> type, content_id |-> id,
     mission_id |-> mission, process_id |-> pid, timestamp |-> ts,
     is_end_misison |-> eow]

NoEvent == FeedbackEvent(None, None, None, None, 0, 0, FALSE)

NoHist ==
    [slates |-> 0, sr52 |-> 0, selections |-> 0, registrations |-> 0,
     sents |-> 0, raised |-> 0, ticks |-> 0, planned_at |-> 0,
     live |-> << >>, replayed |-> {},
     updates |-> 0, batch |-> << >>, applied |-> << >>,
     events |-> 0, last_event |-> NoEvent,
     payload |-> [events |-> << >>, new_missions |-> << >>],
     interleaving |-> << >>,
     parsed |-> [by |-> None, raw |-> << >>, ok |-> FALSE, value |-> << >>],
     last_set |-> [op |-> None, mode |-> None, time |-> << >>, ok |-> FALSE],
     last_effective |-> << >>,
     last_slate |-> NoContents,
     inserted |-> << >>, evicted |-> << >>, released |-> FALSE,
     store_log |-> << >>,
     sent_plan |-> [decided_in |-> 0, bound_from |-> 0],
     read |-> [done |-> FALSE, start_time |-> << >>, end_time |-> << >>,
               result |-> NoContents, latest |-> NoContents]]

(***************************************************************************)
(* SpecBinder: the ProcessBinder driven through its public methods         *)
(***************************************************************************)
enqueue_decision(plan_id, rec, mission) ==
    LET n == Len(enqLog[plan_id]) + 1
        sid == 10 * plan_id + n
        snap == Snapshot(sid, n, rec, mission, BinderFv)
    IN  /\ Cardinality({<<p, i>> : p \in BinderPlans, i \in 1..MaxSnaps} \cap
                        {pi \in BinderPlans \X (1..MaxSnaps) : pi[2] <= Len(enqLog[pi[1]])}) < MaxSnaps
        /\ pending' = [pending EXCEPT ![plan_id] = Append(@, snap)]
        /\ enqLog' = [enqLog EXCEPT ![plan_id] = Append(@, snap)]
        /\ UNCHANGED <<proc_map, boundLog, sysVars>>

bind_on_sent(plan_id, rec, mission, pid) ==
    LET dq == pending[plan_id]
        i == BindIndex(dq, rec, mission)
        bound == IF i = 0 THEN NoSnap ELSE dq[i]
    IN  /\ pending' = [pending EXCEPT ![plan_id] = BindRest(dq, rec, mission)]
        /\ proc_map' = IF i = 0 THEN proc_map ELSE BindRecord(proc_map, pid, bound)
        /\ boundLog' = IF i = 0 THEN boundLog ELSE LogBound(boundLog, bound, pid)
        /\ UNCHANGED <<enqLog, sysVars>>

set_snapshot(pid, rec, mission, fv) ==
    /\ proc_map' = Remember(proc_map, pid, Snapshot(0, 0, rec, mission, fv))
    /\ UNCHANGED <<pending, enqLog, boundLog, sysVars>>

\* lookup returns DictGet(proc_map, pid) and changes nothing
lookup(pid) ==
    /\ DictGet(proc_map, pid) \in {NoSnap} \cup {proc_map[i].snap : i \in 1..Len(proc_map)}
    /\ UNCHANGED <<pending, proc_map, enqLog, boundLog, sysVars>>

release(pid) ==
    /\ proc_map' = DictPop(proc_map, pid)
    /\ UNCHANGED <<pending, enqLog, boundLog, sysVars>>

InitBinder ==
    /\ pending = [p \in BinderPlans |-> << >>]
    /\ proc_map = << >>
    /\ enqLog = [p \in BinderPlans |-> << >>]
    /\ boundLog = << >>
    /\ user = NoUser
    /\ engine = NoSelectionId
    /\ plan = IdlePlan
    /\ now = 0
    /\ hist = NoHist

NextBinder ==
    \/ \E p \in BinderPlans, it \in BinderItems :
          enqueue_decision(p, it[1], it[2])
    \/ \E p \in BinderPlans, r \in BinderRecs, m \in BinderMissions \cup {None}, pid \in Pids :
          bind_on_sent(p, r, m, pid)
    \/ \E pid \in Pids : set_snapshot(pid, "SRc1", "SM1", NoFv)
    \/ \E pid \in Pids : lookup(pid)
    \/ \E pid \in Pids : release(pid)

SpecBinder == InitBinder /\ [][NextBinder]_vars

(***************************************************************************)
(* Claims about the binder                                                 *)
(***************************************************************************)
IsBound(snap) == snap.sid \in DOMAIN boundLog

SameItem(s, t) == s.rec_id = t.rec_id /\ s.mission_id = t.mission_id

\* C2 (Binder FIFO): under one (user, plan), the snapshots of one item and
\* mission are bound in the order they were enqueued (at every moment the
\* bound ones are the first of their item in enqueue order, whatever
\* correlation ids the binds carried), and the pending queue is the enqueue
\* history without the bound snapshots, in its original order.
BinderFifo ==
    \A p \in BinderPlans :
        /\ pending[p] = SelectSeq(enqLog[p], LAMBDA s : ~IsBound(s))
        /\ \A i, j \in 1..Len(enqLog[p]) :
              (i < j /\ SameItem(enqLog[p][i], enqLog[p][j]) /\ IsBound(enqLog[p][j]))
                  => IsBound(enqLog[p][i])

\* two snapshots of one item were bound around a third of another item,
\* which is still pending
BinderFifoWitness ==
    \E p \in BinderPlans :
        /\ Len(enqLog[p]) = 3
        /\ SameItem(enqLog[p][1], enqLog[p][3])
        /\ ~SameItem(enqLog[p][1], enqLog[p][2])
        /\ IsBound(enqLog[p][1]) /\ IsBound(enqLog[p][3])
        /\ boundLog[enqLog[p][1].sid] # boundLog[enqLog[p][3].sid]
        /\ pending[p] = <<enqLog[p][2]>>

\* C3 (hard capacity bound): proc_map never holds more than the configured
\* capacity of entries, whether they came from set_snapshot or from binding.
ProcMapWithinCap == Len(proc_map) <= ProcCap

\* C4 (consumed exactly once): every snapshot bind_on_sent returned was
\* returned by one call only (hence for one correlation id), left the pending
\* queue with that call, and is cached under at most one correlation id.
ConsumedOnce ==
    /\ \A sid \in DOMAIN boundLog : Len(boundLog[sid]) = 1
    /\ \A p \in BinderPlans : \A i \in 1..Len(pending[p]) : ~IsBound(pending[p][i])
    /\ \A i, j \in 1..Len(proc_map) :
          (i # j /\ proc_map[i].snap.sid # 0) => proc_map[i].snap.sid # proc_map[j].snap.sid

\* two snapshots of the same item were bound, to two correlation ids, and
\* both bindings are cached
ConsumedOnceWitness ==
    \E p \in BinderPlans : \E i, j \in 1..Len(enqLog[p]) :
        /\ i < j /\ SameItem(enqLog[p][i], enqLog[p][j])
        /\ IsBound(enqLog[p][i]) /\ IsBound(enqLog[p][j])
        /\ boundLog[enqLog[p][i].sid] # boundLog[enqLog[p][j].sid]
        /\ \E a, b \in 1..Len(proc_map) :
              proc_map[a].snap = enqLog[p][i] /\ proc_map[b].snap = enqLog[p][j]

(***************************************************************************)
(* The slate-generation pass                                               *)
(***************************************************************************)
\* _select_contents up to the first slot of get_recommendations_to_send, for a
\* user with new_plan_required and a plan-required record (for any other user
\* the pass changes nothing)
SelectContentsBegin ==
    /\ plan.pc = "idle"
    /\ user.exists /\ user.new_plan_required
    /\ Len(get_new_missions(user)) > 0
    /\ LET mission == LatestNewMission(user)
           nm == get_new_missions(user)
           older_ids == {nm[i].mission : i \in 1..Len(nm)} \ {mission.mission}
           u1 == set_missions_plan_to_false(user, older_ids)
           um == get_new_missions(u1)
           avail == get_available_recommendations(u1, mission.mission)
       IN  \E pick \in [1..Len(um) -> Resources] :
           LET res == select_resource(um, 1, u1.received_resources, pick)
           IN
           /\ res.ok
           /\ user' = [u1 EXCEPT !.received_resources = res.received]
           /\ engine' = get_resources_to_send(engine, Len(res.selected))
           /\ plan' = [IdlePlan EXCEPT !.pc = "planning",
                                       !.resources = res.selected,
                                       !.mission = mission.mission,
                                       !.start = mission.selection_timestamp,
                                       !.numSlots = MAX_NUM_REC_PER_MISSION \div Len(um),
                                       !.avail = avail, !.unchanged = avail]
    /\ UNCHANGED <<binderVars, now, hist>>

\* one iteration of the slot loop with the bandits' outcome (sel, high):
\* high stands for estimated_reward > 0.5. With nothing to choose among,
\* select_action raises and the update aborts.
SlotStep ==
    /\ plan.pc = "planning"
    /\ plan.slot < plan.numSlots
    /\ FvMapState(user, plan.mission, plan.avail) = "ok"
    /\ \E sel \in Recommendations, high \in BOOLEAN :
        LET cands == Candidates(plan.avail, user.only_one_rec_already)
            raises == cands = {}
            accept == select_anyway(plan.count) \/ high
            fv == FvOf(user, now, plan.mission, sel, plan.total, plan.recOff, FALSE)
            f == update_frequency_offsets(plan.selCount, plan.total, plan.recOff,
                                          plan.avail, sel)
            eow == FvOf(user, now, plan.mission, sel, f.total, f.recOff, TRUE)
            a == update_avail_recommendations(f.avail, user.only_one_rec_already, sel)
            snap == Snapshot(engine.next_sid, engine.content_count, sel, plan.mission, fv)
        IN  /\ IF raises THEN sel = "SRc52" /\ high ELSE sel \in cands
            /\ plan' =
                 IF raises THEN IdlePlan
                 ELSE IF ~accept THEN [plan EXCEPT !.slot = @ + 1, !.high = high]
                 ELSE [plan EXCEPT !.slot = @ + 1, !.count = @ + 1, !.high = high,
                                   !.selected = Append(@, [id |-> sel, type |-> "recommendation",
                                                           mission_id |-> plan.mission]),
                                   !.selCount = f.selCount, !.total = f.total,
                                   !.recOff = f.recOff, !.avail = a.avail]
            /\ user' =
                 IF raises \/ ~accept THEN user
                 ELSE [user EXCEPT !.only_one_rec_already = a.only_one_rec_already,
                                   !.eow_rec_id_to_fv =
                                       IF sel \in plan.unchanged THEN Put(@, sel, eow) ELSE @]
            /\ engine' =
                 IF raises \/ ~accept THEN engine
                 ELSE [engine EXCEPT !.content_count = @ + 1, !.next_sid = @ + 1]
            /\ pending' =
                 IF raises \/ ~accept THEN pending
                 ELSE [pending EXCEPT ![engine.plan_id] = Append(@, snap)]
            /\ hist' =
                 IF raises THEN [hist EXCEPT !.raised = @ + 1]
                 ELSE IF ~accept THEN hist
                 ELSE [hist EXCEPT !.live = Append(@,
                          [reg |-> hist.registrations, mission |-> plan.mission,
                           start |-> plan.start, k |-> Len(plan.selected) + 1,
                           rec |-> sel, fv |-> fv])]
    /\ UNCHANGED <<proc_map, enqLog, boundLog, now>>

\* the loop is over (no slot left, or nothing available): the rest of
\* _select_contents
SelectContentsEnd ==
    /\ plan.pc = "planning"
    /\ plan.slot = plan.numSlots \/ FvMapState(user, plan.mission, plan.avail) = "empty"
    /\ user' = [set_missions_plan_to_false(user, {plan.mission}) EXCEPT
                   !.new_plan_required = FALSE,
                   !.selected_contents =
                       [contents |-> plan.resources \o plan.selected,
                        mission_start_time |-> plan.start,
                        plan_id |-> engine.plan_id]]
    /\ engine' = rotate_plan_id(engine)
    /\ plan' = IdlePlan
    /\ hist' = [hist EXCEPT !.slates = @ + 1,
                            !.last_slate = user'.selected_contents,
                            !.planned_at = hist.selections,
                            !.sr52 = @ + Cardinality({i \in 1..Len(plan.selected) :
                                                        plan.selected[i].id = "SRc52"})]
    /\ UNCHANGED <<binderVars, now>>

(***************************************************************************)
(* ContentSelection.update, one kind of payload at a time                  *)
(***************************************************************************)
\* update({"new_users": {u: ...}}): add_users builds a new User whether or
\* not the id is registered; the enrolment date is the day of the batch
add_users ==
    /\ plan.pc = "idle"
    /\ user' = User(now)
    /\ hist' = [hist EXCEPT !.registrations = @ + 1]
    /\ UNCHANGED <<binderVars, engine, plan, now>>

\* update with one mission-selection event of a registered user, stamped
\* with the day of the batch
mission_selected(mission, recs, resources, prescribed) ==
    /\ plan.pc = "idle"
    /\ user.exists
    /\ user' = update_missions_and_contents(user,
                    [MissionRecord(mission, recs, now) EXCEPT
                        !.resources = resources, !.prescribed = prescribed])
    /\ hist' = [hist EXCEPT !.selections = @ + 1]
    /\ UNCHANGED <<binderVars, engine, plan, now>>

\* the selection of a mission that is not prescribed and carries no resources
apply_mission_selected(mission, recs) == mission_selected(mission, recs, << >>, FALSE)

(***************************************************************************)
(* SpecSlate: the first slate of a user, over every outcome of the bandits *)
(***************************************************************************)
\* mission selections a user makes before the slate is generated
MaxSelections == 2

\* the recommendation lists the selections of SpecSlate carry
SlateLists ==
    { <<"SRc52", "SRc1", "SRc2", "SRc3", "SRc4">>,
      <<"SRc100", "SRc101", "SRc1">> }

\* plan ids: None (0) and the uuids in the order they are drawn
PlanIds == 0..(MaxSelections + 2)

InitSys ==
    /\ pending = [p \in PlanIds |-> << >>]
    /\ proc_map = << >>
    /\ enqLog = << >>
    /\ boundLog = << >>
    /\ user = NoUser
    /\ engine = NoSelectionId
    /\ plan = IdlePlan
    /\ now = 0
    /\ hist = NoHist

NextSlate ==
    \/ ~user.exists /\ add_users
    \/ /\ hist.slates = 0
       /\ hist.selections < MaxSelections
       /\ \E l \in SlateLists : apply_mission_selected("SM1", l)
    \/ SelectContentsBegin
    \/ SlotStep
    \/ SelectContentsEnd

SpecSlate == InitSys /\ [][NextSlate]_vars

(***************************************************************************)
(* MABUpdater: a 'sent' event                                              *)
(***************************************************************************)
\* one turn of the replay loop of _fv_for_slot_at_selection_time: the offsets
\* start from an empty per-item count each time
ReplayStep(st, prior) ==
    LET f == update_frequency_offsets(EmptyDict, st.total, st.recOff, st.avail, prior)
        a == update_avail_recommendations(f.avail, st.only_one_rec_already, prior)
    IN  [avail |-> a.avail, only_one_rec_already |-> a.only_one_rec_already,
         total |-> f.total, recOff |-> f.recOff]

RECURSIVE ReplayPriors(_, _, _)
ReplayPriors(st, seq, n) ==
    IF n = 0 THEN st ELSE ReplayStep(ReplayPriors(st, seq, n - 1), seq[n].rec)

\* _sent_seq_for_mission: the sends of the mission in [sel_ts, sel_ts + 7 days)
sent_seq_for_mission(u, mission, sel_ts) ==
    SelectSeq(u.history, LAMBDA e :
        e.mission = mission /\ sel_ts <= e.ts /\ e.ts < sel_ts + WEEK)

\* _fv_for_slot_at_selection_time: what it returns (fv, NoFv for None), whether
\* it raises, and only_one_rec_already as it leaves it
fv_for_slot_at_selection_time(u, t, mission, rec, seq, slot_index, prompted) ==
    LET st0 == [avail |-> get_available_recommendations(u, mission),
                only_one_rec_already |-> u.only_one_rec_already,
                total |-> 0, recOff |-> EmptyDict]
        st1 == ReplayPriors(st0, seq, slot_index - 1)
        st == IF prompted THEN ReplayStep(st1, rec) ELSE st1
        state == FvMapState(u, mission, st.avail)
    IN  [raises |-> state = "raise",
         only_one_rec_already |-> st.only_one_rec_already,
         fv |-> IF state = "ok" /\ rec \in st.avail
                THEN FvOf(u, t, mission, rec, st.total, st.recOff, prompted)
                ELSE NoFv]

\* the slot index _process_sent_recommendation finds for the send, 0 for None
SlotIndex(seq, pid, rec, ts) ==
    LET byPid == FirstIndex(seq, LAMBDA e : e.pid = pid)
    IN  IF byPid # 0 THEN byPid
        ELSE FirstIndex(seq, LAMBDA e : e.rec = rec /\ e.ts = ts)

\* ignores the prescribed flag of the snapshot
LearnsFromPrescribed(u, mission, ts) == mission_snapshot_at(u, mission, ts) # 0

\* update_all: the event is processed if the user has a snapshot of the
\* mission at the event's timestamp and it is not prescribed
Learns(u, mission, ts) ==
    LET k == mission_snapshot_at(u, mission, ts)
    IN  k # 0 /\ ~u.selected_missions_and_contents[k].prescribed

\* update with one 'sent' event (rec, mission, pid) stamped with the day of
\* the batch, for a mission update_all learns from: the send is tracked, then
\* bound, or its feature vector is reconstructed and cached.  decided_in is
\* the plan whose notification the event reports (0 if not followed): the
\* event does not carry it and the handler does not use it
sent_recommendation(rec, mission, pid, decided_in) ==
    /\ plan.pc = "idle"
    /\ user.exists
    /\ Learns(user, mission, now)
    /\ LET u1 == [user EXCEPT !.history =
                     add_recommendation(@, [ts |-> now, pid |-> pid, rec |-> rec,
                                            mission |-> mission])]
           plan_id == user.selected_contents.plan_id
           dq == pending[plan_id]
           i == BindIndex(dq, rec, mission)
           sel_ts == u1.selected_missions_and_contents[
                         mission_snapshot_at(u1, mission, now)].selection_timestamp
           seq == sent_seq_for_mission(u1, mission, sel_ts)
           slot_index == SlotIndex(seq, pid, rec, now)
           minimal == slot_index = 0 \/ ~Learns(u1, mission, now)
           r1 == fv_for_slot_at_selection_time(u1, now, mission, rec, seq, slot_index, FALSE)
           u2 == [u1 EXCEPT !.only_one_rec_already = r1.only_one_rec_already]
           r2 == fv_for_slot_at_selection_time(u2, now, mission, rec, seq, slot_index, TRUE)
           u3 == [u2 EXCEPT !.only_one_rec_already = r2.only_one_rec_already,
                            !.eow_rec_id_to_fv =
                                IF r2.raises \/ r2.fv = NoFv THEN @ ELSE Put(@, rec, r2.fv)]
       IN  /\ pending' = [pending EXCEPT ![plan_id] = BindRest(dq, rec, mission)]
           /\ proc_map' =
                IF i # 0 THEN BindRecord(proc_map, pid, dq[i])
                ELSE IF minimal
                     THEN Remember(proc_map, pid, Snapshot(0, 0, rec, mission, NoFv))
                ELSE IF r1.raises THEN proc_map
                ELSE Remember(proc_map, pid, Snapshot(0, 0, rec, mission, r1.fv))
           /\ user' =
                IF i # 0 \/ minimal THEN u1
                ELSE IF r1.raises THEN u2
                ELSE u3
           /\ hist' =
                [hist EXCEPT
                    !.sents = @ + 1,
                    !.events = @ + 1,
                    !.sent_plan = [decided_in |-> decided_in,
                                   bound_from |-> IF decided_in # 0 /\ i # 0
                                                  THEN plan_id ELSE 0],
                    !.last_event = FeedbackEvent("notification_sent", "recommendation",
                                                 rec, mission, pid, now, FALSE),
                    !.raised = IF i = 0 /\ ~minimal /\ (r1.raises \/ r2.raises)
                               THEN @ + 1 ELSE @,
                    !.replayed = IF i = 0 /\ ~minimal /\ ~r1.raises
                                 THEN @ \cup {[reg |-> hist.registrations,
                                               decided |-> Len(hist.live),
                                               mission |-> mission, start |-> sel_ts,
                                               k |-> slot_index, rec |-> rec, fv |-> r1.fv]}
                                 ELSE @]
    /\ UNCHANGED <<enqLog, boundLog, engine, plan, now>>

process_sent_recommendation(rec, mission, pid) == sent_recommendation(rec, mission, pid, 0)

\* the clock of the next batch is d days later
Tick(d) ==
    /\ plan.pc = "idle"
    /\ now' = now + d
    /\ hist' = [hist EXCEPT !.ticks = @ + 1]
    /\ UNCHANGED <<binderVars, user, engine, plan>>

(***************************************************************************)
(* Spec: the update batches of one user                                    *)
(***************************************************************************)
\* batches that register the user id
MaxRegistrations == 2
\* 'sent' events
MaxSent == 1
\* batches whose clock is later than the one before
MaxTicks == 1
\* updates that abort with an exception
MaxRaises == 1

\* the recommendation lists the selections of Spec carry
SysLists == { <<"SRc1">>, <<"SRc52", "SRc1">> }

\* the items 'sent' events report
SentRecs == {"SRc1", "SRc52"}

Next ==
    \/ hist.registrations < MaxRegistrations /\ add_users
    \/ /\ hist.selections < MaxSelections
       /\ \E m \in Missions, l \in SysLists : apply_mission_selected(m, l)
    \/ hist.raised < MaxRaises /\ SelectContentsBegin
    \/ SlotStep
    \/ SelectContentsEnd
    \/ /\ hist.sents < MaxSent
       /\ \E r \in SentRecs, m \in Missions :
             process_sent_recommendation(r, m, hist.sents + 1)
    \/ hist.ticks < MaxTicks /\ Tick(1)

Spec == InitSys /\ [][Next]_vars

(***************************************************************************)
(* SpecRecords: the selection records of a user who registers once, over   *)
(* selections, re-selections and passes                                    *)
(***************************************************************************)
NextRecords ==
    \/ ~user.exists /\ add_users
    \/ /\ hist.selections < MaxSelections
       /\ \E m \in Missions, l \in SysLists : apply_mission_selected(m, l)
    \/ hist.raised < MaxRaises /\ SelectContentsBegin
    \/ SlotStep
    \/ SelectContentsEnd
    \/ hist.ticks < MaxTicks /\ Tick(1)

SpecRecords == InitSys /\ [][NextRecords]_vars

(***************************************************************************)
(* Claims about the slate                                                  *)
(***************************************************************************)
\* the ids a sequence of slate entries holds for a mission, and how often
SlateIds(contents, mission) ==
    {contents[i].id : i \in {j \in 1..Len(contents) : contents[j].mission_id = mission}}

Occurrences(contents, mission, rec) ==
    Cardinality({i \in 1..Len(contents) :
        contents[i].id = rec /\ contents[i].mission_id = mission})

\* the slate the last pass returned, and the one the running pass is filling
Returned ==
    SelectSeq(user.selected_contents.contents, LAMBDA c : c.type = "recommendation")

Filling == plan.selected

DistinctItemCap ==
    \A m \in Missions :
        /\ Cardinality(SlateIds(Returned, m)) <= MAX_DISTINCT_REC_PER_MISSION
        /\ Cardinality(SlateIds(Filling, m)) <= MAX_DISTINCT_REC_PER_MISSION
        /\ (plan.pc = "planning" /\ plan.mission = m
            /\ Cardinality(SlateIds(Filling, m)) >= MAX_DISTINCT_REC_PER_MISSION)
              => plan.avail \subseteq SlateIds(Filling, m)

\* a pass reached the cap with ids still available, one id of the mission's
\* list never selected, and went on selecting
DistinctItemCapWitness ==
    /\ plan.pc = "planning"
    /\ Cardinality(SlateIds(Filling, plan.mission)) = MAX_DISTINCT_REC_PER_MISSION
    /\ plan.unchanged \ SlateIds(Filling, plan.mission) # {}
    /\ plan.avail # {}
    /\ Len(Filling) > MAX_DISTINCT_REC_PER_MISSION + 1

ReplayEqualsLive ==
    \A f \in hist.replayed : \A i \in 1..Len(hist.live) :
        LET l == hist.live[i] IN
        (i <= f.decided /\ l.reg = f.reg /\ l.mission = f.mission
         /\ l.start = f.start /\ l.k = f.k /\ l.rec = f.rec)
            => f.fv = l.fv

\* C8 (mandatory-once item): over all slates produced for the user, SRc52
\* holds at most one position.
Sr52AtMostOnce == hist.sr52 <= 1

\* the records of the mission with the latest selection timestamp
LatestRecords(u, mission) ==
    LET recs == u.selected_missions_and_contents
        of_m == {i \in 1..Len(recs) : recs[i].mission = mission}
    IN  {recs[i] : i \in {j \in of_m : \A k \in of_m :
            recs[k].selection_timestamp <= recs[j].selection_timestamp}}

\* C9 (latest record): every recommendation a pass places in the slate of a
\* mission is in the recommendation list of a record of that mission with
\* the latest selection timestamp.
SlateFromLatestRecord ==
    plan.pc = "planning" =>
        \A i \in 1..Len(Filling) :
            \E r \in LatestRecords(user, plan.mission) :
                Filling[i].id \in Range(r.recommendations)

\* C10 (record lifecycle): while no mission selection has arrived since the
\* user's last completed pass, no record of the user is plan-required and
\* the user asks for no plan; and a pass only ever runs (selects, enqueues)
\* when a selection arrived after the last completed one.
RecordLifecycle ==
    /\ (plan.pc = "idle" /\ hist.slates > 0 /\ hist.selections = hist.planned_at)
          => /\ ~user.new_plan_required
             /\ \A i \in 1..Len(user.selected_missions_and_contents) :
                   ~user.selected_missions_and_contents[i].plan_required
    /\ plan.pc = "planning" => hist.selections > hist.planned_at

\* a pass planned the later of two records of different missions, the earlier
\* never had a pass of its own, and neither record is plan-required
RecordLifecycleWitness ==
    LET recs == user.selected_missions_and_contents IN
    /\ plan.pc = "idle" /\ hist.slates = 1 /\ hist.selections = hist.planned_at
    /\ Len(recs) = 2
    /\ recs[1].mission # recs[2].mission
    /\ recs[1].selection_timestamp < recs[2].selection_timestamp
    /\ user.selected_contents.contents # << >>
    /\ user.selected_contents.mission_start_time = recs[2].selection_timestamp
    /\ \A i \in 1..2 : ~recs[i].plan_required

(***************************************************************************)
(* ContentSelection.update: the mission events of one batch                *)
(***************************************************************************)
\* a client timestamp is <<local time, utc offset>>, or <<local time>> if it
\* carries no offset (the batches of the engine hold none of these); a string
\* that does not parse is << >>
BadTs == << >>

IsIso(raw) == Len(raw) = 2

\* parse_client_ts: the instant in UTC
parse_client_ts(raw) == raw[1] - raw[2]

\* one entry of merged_by_user[user_id]
MergedEvent(ts, type, mission, score, recs) ==
    [ts |-> ts, type |-> type, mission |-> mission, score |-> score,
     recommendations |-> recs]

\* 3a: the 'mission_accomplished' events of the feedback, in the order of the
\* payload; one with a bad timestamp is skipped
MergeAccomplished(events) ==
    LET ok == SelectSeq(events, LAMBDA ev : IsIso(ev.timestamp))
    IN  [i \in 1..Len(ok) |->
            MergedEvent(parse_client_ts(ok[i].timestamp), "accomplish",
                        ok[i].mission_id, ok[i].score, << >>)]

\* 3b: the new missions, after the accomplishments; a bad selection timestamp
\* is replaced by now
MergeSelected(new_missions, t) ==
    [i \in 1..Len(new_missions) |->
        MergedEvent(IF IsIso(new_missions[i].selection_timestamp)
                    THEN parse_client_ts(new_missions[i].selection_timestamp)
                    ELSE t,
                    "select", new_missions[i].mission, 0,
                    new_missions[i].recommendations)]

\* order = {"select": 0, "accomplish": 1}
EventOrder(type) == IF type = "select" THEN 0 ELSE 1

\* a sort key that looks at the timestamp only
EventKeyLETsOnly(a, b) == a.ts <= b.ts

\* key(a) <= key(b) for key = (ts, order[type])
EventKeyLE(a, b) ==
    \/ a.ts < b.ts
    \/ a.ts = b.ts /\ EventOrder(a.type) <= EventOrder(b.type)

\* e put behind the entries of a sorted list whose key is not larger
InsertEvent(sorted, e) ==
    LET n == Cardinality({i \in 1..Len(sorted) : EventKeyLE(sorted[i], e)})
    IN  SubSeq(sorted, 1, n) \o <<e>> \o SubSeq(sorted, n + 1, Len(sorted))

\* items.sort(key=...): list.sort is stable
RECURSIVE SortEvents(_)
SortEvents(items) ==
    IF items = << >> THEN << >>
    ELSE InsertEvent(SortEvents(SubSeq(items, 1, Len(items) - 1)), items[Len(items)])

\* UserManager.apply_mission_selected / apply_mission_accomplished
ApplyEvent(u, ev) ==
    IF ev.type = "select"
    THEN update_missions_and_contents(u, MissionRecord(ev.mission, ev.recommendations, ev.ts))
    ELSE [u EXCEPT !.previous_mission_score = ev.score]

\* 3c: for ev in items
RECURSIVE ApplyEvents(_, _)
ApplyEvents(u, items) ==
    IF items = << >> THEN u
    ELSE ApplyEvents(ApplyEvent(u, Head(items)), Tail(items))

\* update({"user_feedback": ..., "new_missions_and_contents": ...}) of a
\* registered user: steps 3a to 3c
update_events(events, new_missions) ==
    /\ plan.pc = "idle"
    /\ user.exists
    /\ LET merged == MergeAccomplished(events) \o MergeSelected(new_missions, now)
           items == SortEvents(merged)
       IN  /\ user' = ApplyEvents(user, items)
           /\ hist' = [hist EXCEPT !.updates = @ + 1,
                                   !.selections = @ + Len(new_missions),
                                   !.batch = merged, !.applied = items]
    /\ UNCHANGED <<binderVars, engine, plan, now>>

(***************************************************************************)
(* SpecOrder: a batch of mission events in every order of arrival          *)
(***************************************************************************)
\* updates that carry the batch
MaxBatches == 1

\* events of one kind in a batch
MaxEvents == 2

\* timestamps of the events: 01:00Z, 02:00+01:00 (the same instant), 02:00Z,
\* and one that does not parse
EventTs == { <<1, 0>>, <<2, 1>>, <<2, 0>> }

AccomplishedEvents ==
    [timestamp : EventTs \cup {BadTs}, mission_id : {"SM1"}, score : {1, 2}]

SelectedEvents ==
    [selection_timestamp : EventTs, mission : Missions, recommendations : {<<"SRc1">>}]

SeqsUpTo(S, n) == UNION {[1..k -> S] : k \in 0..n}

\* the batch is any list of accomplishments and any list of new missions
InitOrder ==
    /\ pending = [p \in PlanIds |-> << >>]
    /\ proc_map = << >>
    /\ enqLog = << >>
    /\ boundLog = << >>
    /\ user = NoUser
    /\ engine = NoSelectionId
    /\ plan = IdlePlan
    /\ now = 0
    /\ hist \in {[NoHist EXCEPT !.payload = [events |-> e, new_missions |-> n]] :
                    e \in SeqsUpTo(AccomplishedEvents, MaxEvents - 1),
                    n \in SeqsUpTo(SelectedEvents, MaxEvents)}

NextOrder ==
    \/ ~user.exists /\ add_users
    \/ /\ hist.updates < MaxBatches
       /\ update_events(hist.payload.events, hist.payload.new_missions)

SpecOrder == InitOrder /\ [][NextOrder]_vars

\* how often e occurs in s
CountIn(s, e) == Cardinality({i \in 1..Len(s) : s[i] = e})

\* C11: the mission events of a batch are applied in non-decreasing order of
\* their timestamps, a selection before an accomplishment of the same
\* instant, whatever their order in the batch: the applied list is the batch
\* rearranged, and the user's records and score are those of that order
EventsInOrder ==
    LET a == hist.applied
        sel == SelectSeq(a, LAMBDA e : e.type = "select")
        acc == SelectSeq(a, LAMBDA e : e.type = "accomplish")
        recs == user.selected_missions_and_contents
        n == Len(recs) - Len(sel)
    IN  /\ \A i, j \in 1..Len(a) :
            i < j => /\ a[i].ts <= a[j].ts
                     /\ (a[i].ts = a[j].ts /\ a[i].type = "accomplish")
                            => a[j].type = "accomplish"
        /\ Len(a) = Len(hist.batch)
        /\ \A i \in 1..Len(a) : CountIn(a, a[i]) = CountIn(hist.batch, a[i])
        /\ n >= 0
        /\ \A k \in 1..Len(sel) :
            /\ recs[n + k].mission = sel[k].mission
            /\ recs[n + k].selection_timestamp = sel[k].ts
        /\ acc # << >> => user.previous_mission_score = acc[Len(acc)].score

\* a batch that arrives out of order and holds a selection and an
\* accomplishment of one instant has been applied
EventsInOrderWitness ==
    LET b == hist.batch
    IN  /\ hist.updates > 0
        /\ \E i, j \in 1..Len(b) : i < j /\ b[i].ts > b[j].ts
        /\ \E i, j \in 1..Len(b) :
            i < j /\ b[i].ts = b[j].ts /\ b[i].type = "accomplish" /\ b[j].type = "select"
        /\ Len(user.selected_missions_and_contents) >= 2

(***************************************************************************)
(* MABUpdater.update_all: 'rated' events and events it skips               *)
(***************************************************************************)
\* the parameters of the three bandits
Mabs(e) == <<e.intervention_mab, e.recommendation_mab, e.resource_mab>>

\* update_all with an event of a mission the user has no snapshot of at the
\* event's timestamp, or a prescribed one: the loop continues
update_all_skipped(ev) ==
    /\ plan.pc = "idle"
    /\ user.exists
    /\ ~Learns(user, ev.mission_id, ev.timestamp)
    /\ hist' = [hist EXCEPT !.events = @ + 1, !.last_event = ev]
    /\ UNCHANGED <<binderVars, user, engine, plan, now>>

\* the values of REWARD_TYPE that _compute_reward knows
RewardTypes == {"thumbs", "float"}

\* _compute_reward raises ValueError
reward_raises(e) == e.reward_type \notin RewardTypes

\* the sanity checks without the test of the user's cache
eow_vector_unchecked(u, rec, mission) == rec \in Recommendations /\ mission \in Missions

\* the end-of-mission branch goes on: the ids are known and the user holds an
\* end-of-mission feature vector for the item
eow_vector_found(u, rec, mission) ==
    /\ rec \in Recommendations /\ mission \in Missions
    /\ rec \in DOMAIN u.eow_rec_id_to_fv

\* update_all with one 'rated' event of a recommendation, stamped with the day
\* of the batch: the reward is computed first; the feature vector is the end-of-mission one of the user or
\* the one of the binder's snapshot; the intervention bandit raises on None
process_rated_recommendation(rec, mission, pid, eow) ==
    /\ plan.pc = "idle"
    /\ user.exists
    /\ Learns(user, mission, now)
    /\ LET snap == DictGet(proc_map, pid)
           found == /\ ~reward_raises(engine)
                    /\ IF eow
                       THEN eow_vector_found(user, rec, mission)
                       ELSE /\ snap # NoSnap
                            /\ snap.rec_id \in Recommendations
                            /\ snap.mission_id \in Missions
           rec_id == IF eow THEN rec ELSE snap.rec_id
           feature_vector == IF ~eow THEN snap.feature_vector
                             ELSE IF rec \in DOMAIN user.eow_rec_id_to_fv
                                  THEN user.eow_rec_id_to_fv[rec]
                                  ELSE NoFv
           disabled == engine.intervention_mab_type = "None"
           raises == \/ reward_raises(engine)
                     \/ found /\ ~disabled /\ feature_vector = NoFv
       IN  /\ user' = IF found
                      THEN [user EXCEPT !.rating_history =
                               Append(@, [ts |-> now, rec |-> rec_id, eow |-> eow])]
                      ELSE user
           /\ engine' = IF ~found \/ raises THEN engine
                        ELSE IF disabled
                             THEN [engine EXCEPT !.recommendation_mab = @ + 1]
                        ELSE [engine EXCEPT !.intervention_mab = @ + 1,
                                            !.recommendation_mab = @ + 1]
           /\ proc_map' = IF found /\ ~raises /\ ~disabled
                          THEN DictPop(proc_map, pid) ELSE proc_map
           /\ hist' = [hist EXCEPT
                          !.events = @ + 1,
                          !.raised = IF raises THEN @ + 1 ELSE @,
                          !.last_event = FeedbackEvent("notification_rated",
                              "recommendation", rec, mission, pid, now, eow)]
    /\ UNCHANGED <<pending, enqLog, boundLog, plan, now>>

\* update_all with one 'rated' event of a resource
process_rated_resource(res, mission, pid) ==
    /\ plan.pc = "idle"
    /\ user.exists
    /\ Learns(user, mission, now)
    /\ engine' = IF res \in Resources /\ ~reward_raises(engine)
                 THEN [engine EXCEPT !.resource_mab = @ + 1]
                 ELSE engine
    /\ hist' = [hist EXCEPT
                   !.events = @ + 1,
                   !.raised = IF res \in Resources /\ reward_raises(engine)
                              THEN @ + 1 ELSE @,
                   !.last_event = FeedbackEvent("notification_rated", "resource",
                                                res, mission, pid, now, FALSE)]
    /\ UNCHANGED <<binderVars, user, plan, now>>

(***************************************************************************)
(* SpecFeedback: 'sent' and 'rated' events of prescribed and chosen        *)
(* missions, with the intervention bandit enabled or not                   *)
(***************************************************************************)
\* feedback events of the user
MaxFeedback == 3

\* the events update_all may skip
SkippedEvents ==
    { FeedbackEvent(n[1], n[2], n[3], m, 1, now, FALSE) :
        n \in { <<"notification_sent", "recommendation", "SRc1">>,
                <<"notification_rated", "recommendation", "SRc1">>,
                <<"notification_rated", "resource", "SRs1">> },
        m \in Missions }

InitFeedback ==
    /\ pending = [p \in PlanIds |-> << >>]
    /\ proc_map = << >>
    /\ enqLog = << >>
    /\ boundLog = << >>
    /\ user = NoUser
    /\ engine \in {[NoSelectionId EXCEPT !.intervention_mab_type = t] :
                        t \in {"LogisticLaplaceTS", "None"}}
    /\ plan = IdlePlan
    /\ now = 0
    /\ hist = NoHist

NextFeedback ==
    \/ ~user.exists /\ add_users
    \/ /\ hist.selections < MaxSelections
       /\ \E p \in BOOLEAN : mission_selected("SM1", <<"SRc1">>, << >>, p)
    \/ hist.ticks < MaxTicks /\ Tick(1)
    \/ /\ hist.events < MaxFeedback
       /\ \E ev \in SkippedEvents : update_all_skipped(ev)
    \/ /\ hist.events < MaxFeedback
       /\ process_sent_recommendation("SRc1", "SM1", 1)
    \/ /\ hist.events < MaxFeedback
       /\ \E eow \in BOOLEAN : process_rated_recommendation("SRc1", "SM1", 1, eow)
    \/ /\ hist.events < MaxFeedback
       /\ process_rated_resource("SRs1", "SM1", 1)

SpecFeedback == InitFeedback /\ [][NextFeedback]_vars

\* the records of mission that are the latest at or before ts are all
\* prescribed (and there is one)
MostRecentPrescribed(u, mission, ts) ==
    LET recs == u.selected_missions_and_contents
        S == {i \in 1..Len(recs) :
                recs[i].mission = mission /\ recs[i].selection_timestamp <= ts}
        top == {i \in S : \A j \in S :
                    recs[j].selection_timestamp <= recs[i].selection_timestamp}
    IN  S # {} /\ \A i \in top : recs[i].prescribed

\* C12: a feedback event, 'sent' or 'rated', of a mission whose latest
\* selection record at or before the event's timestamp is prescribed leaves
\* the parameters of the intervention, recommendation and resource bandits
\* as they were
PrescribedNoLearning ==
    [][(/\ hist'.events = hist.events + 1
        /\ MostRecentPrescribed(user, hist'.last_event.mission_id,
                                hist'.last_event.timestamp))
       => Mabs(engine') = Mabs(engine)]_vars

\* a rating of a prescribed mission has been handled by an updater that has
\* learned from a rating before
PrescribedNoLearningWitness ==
    /\ hist.last_event.event_name = "notification_rated"
    /\ MostRecentPrescribed(user, hist.last_event.mission_id, hist.last_event.timestamp)
    /\ engine.recommendation_mab > 0
    /\ ProcKeys(proc_map) # {} \/ DOMAIN user.eow_rec_id_to_fv # {}

\* C14: once a 'rated' event of a recommendation has been resolved and the
\* bandits updated, its correlation id is released, with the intervention
\* bandit enabled or not
RatedThenReleased ==
    [][engine'.recommendation_mab = engine.recommendation_mab + 1
       => hist'.last_event.process_id \notin ProcKeys(proc_map')]_vars

(***************************************************************************)
(* Claims about the slot loop                                              *)
(***************************************************************************)
\* a step of the slot loop that goes on to the next slot
NextSlot == plan.pc = "planning" /\ plan'.pc = "planning" /\ plan'.slot = plan.slot + 1

\* C15, as amended: while fewer than MIN_NUM_REC_PER_MISSION recommendations
\* are selected for the mission the bandit's choice is accepted whatever its
\* estimated reward; from then on a choice whose estimated reward is at or
\* below 0.5 is rejected and adds nothing to the slate
RewardGate ==
    [][NextSlot =>
        LET n == Len(plan.selected)
            accepted == Len(plan'.selected) = n + 1
            rejected == plan'.selected = plan.selected /\ pending' = pending
        IN  /\ accepted \/ rejected
            /\ n < MIN_NUM_REC_PER_MISSION => accepted
            /\ (n >= MIN_NUM_REC_PER_MISSION /\ ~plan'.high) => rejected]_vars

\* C15, as stated: the choice is forced while at most MIN_NUM_REC_PER_MISSION
\* recommendations are selected, and a low estimate is rejected otherwise
RewardGateAsStated ==
    [][NextSlot =>
        LET n == Len(plan.selected)
            accepted == Len(plan'.selected) = n + 1
            rejected == plan'.selected = plan.selected /\ pending' = pending
        IN  /\ n <= MIN_NUM_REC_PER_MISSION => accepted
            /\ (n > MIN_NUM_REC_PER_MISSION /\ ~plan'.high) => rejected]_vars

\* the first MIN_NUM_REC_PER_MISSION slots were filled and the next choice,
\* of a low estimate, was rejected
RewardGateWitness ==
    /\ plan.pc = "planning"
    /\ plan.slot = MIN_NUM_REC_PER_MISSION + 1
    /\ Len(plan.selected) = MIN_NUM_REC_PER_MISSION
    /\ ~plan.high

\* the user's only record offers five distinct recommendations
OneMissionOfFive ==
    LET recs == user.selected_missions_and_contents
    IN  /\ Len(recs) = 1
        /\ Cardinality(Range(recs[1].recommendations)) = 5

\* C16: the slate of a user with one plan-required mission of five distinct
\* available recommendations holds at least MIN_NUM_REC_PER_MISSION
\* recommendation items, whatever the bandits choose and estimate, and the
\* pass that builds it does not abort
MinimumSlate ==
    OneMissionOfFive =>
        /\ hist.raised = 0
        /\ (plan.pc = "idle" /\ hist.slates > 0) => Len(Returned) >= MIN_NUM_REC_PER_MISSION

\* such a slate of exactly MIN_NUM_REC_PER_MISSION items
MinimumSlateWitness ==
    /\ OneMissionOfFive
    /\ plan.pc = "idle" /\ hist.slates > 0
    /\ Len(Returned) = MIN_NUM_REC_PER_MISSION

\* the missions of the plan-required records
PlannedMissions(u) ==
    {get_new_missions(u)[i].mission : i \in 1..Len(get_new_missions(u))}

\* C17: the slots attempted for the planned mission are
\* MAX_NUM_REC_PER_MISSION integer-divided by the number of distinct missions
\* being planned, however many plan-required records the mission has
SlotBudget ==
    plan.pc = "planning" =>
        plan.numSlots = MAX_NUM_REC_PER_MISSION \div Cardinality(PlannedMissions(user))

(***************************************************************************)
(* SpecRetry: passes that follow a pass that aborted                       *)
(***************************************************************************)
\* mission selections of the user
MaxReselections == 3

NextRetry ==
    \/ ~user.exists /\ add_users
    \/ /\ hist.selections < MaxReselections
       /\ \E m \in Missions, l \in SysLists : apply_mission_selected(m, l)
    \/ hist.raised <= MaxRaises /\ SelectContentsBegin
    \/ SlotStep
    \/ SelectContentsEnd
    \/ hist.ticks < MaxTicks /\ Tick(1)

SpecRetry == InitSys /\ [][NextRetry]_vars

\* C13: when the slate generation of a user completes, the binder's pending
\* queue of the plan id the slate reports holds exactly one snapshot for each
\* recommendation item of the slate, with its item and mission ids, in the
\* order of the slate
SnapshotsMatchSlate ==
    [][(plan.pc = "planning" /\ hist'.slates = hist.slates + 1) =>
        LET q == pending'[user'.selected_contents.plan_id]
            r == SelectSeq(user'.selected_contents.contents,
                           LAMBDA c : c.type = "recommendation")
        IN  /\ Len(q) = Len(r)
            /\ \A i \in 1..Len(q) :
                q[i].rec_id = r[i].id /\ q[i].mission_id = r[i].mission_id]_vars

(***************************************************************************)
(* SpecResources: slates of missions that carry resources                  *)
(***************************************************************************)
\* the resource lists of the selections
ResourceLists == { << >>, <<"SRs1", "SRs2">> }

NextResources ==
    \/ ~user.exists /\ add_users
    \/ /\ hist.selections < MaxSelections
       /\ \E l \in SysLists, r \in ResourceLists : mission_selected("SM1", l, r, FALSE)
    \/ hist.raised < MaxRaises /\ SelectContentsBegin
    \/ SlotStep
    \/ SelectContentsEnd

SpecResources == InitSys /\ [][NextResources]_vars

\* the resource items a sequence of slate entries holds for a mission
ResourceItems(contents, mission) ==
    {i \in 1..Len(contents) :
        contents[i].type = "resource" /\ contents[i].mission_id = mission}

\* C18: a slate holds at most one resource item for each mission id, also
\* when the planned mission has more than one plan-required record
OneResourcePerMission ==
    \A m \in Missions :
        /\ Cardinality(ResourceItems(user.selected_contents.contents, m)) <= 1
        /\ Cardinality(ResourceItems(plan.resources, m)) <= 1

(***************************************************************************)
(* Claims about the user over the batches of Spec                          *)
(***************************************************************************)
\* s is a prefix of t
IsPrefix(s, t) == Len(s) <= Len(t) /\ SubSeq(t, 1, Len(s)) = s

\* a selection record without its plan-required flag
Selection(r) == [r EXCEPT !.plan_required = FALSE]

\* C19: a registered user stays registered and no update removes or resets
\* the selection records, the sent log, the rating log, the received
\* resources or the record of the mandatory-once item
HistoryPreserved ==
    [][user.exists =>
        LET recs == user.selected_missions_and_contents
            recs2 == user'.selected_missions_and_contents
        IN  /\ user'.exists
            /\ Len(recs) <= Len(recs2)
            /\ \A i \in 1..Len(recs) : Selection(recs2[i]) = Selection(recs[i])
            /\ Range(user.history) \subseteq Range(user'.history)
            /\ IsPrefix(user.rating_history, user'.rating_history)
            /\ IsPrefix(user.received_resources, user'.received_resources)
            /\ user.only_one_rec_already \subseteq user'.only_one_rec_already]_vars

\* C20: the intervention-start time is that of the first mission selection
\* applied to the user, and once a selection has been applied no update
\* changes it
InterventionStartOnce ==
    [][/\ (user.exists /\ user.selected_missions_and_contents # << >>)
            => user.intervention_start_date =
                    user.selected_missions_and_contents[1].selection_timestamp
       /\ hist.selections > 0
            => user'.intervention_start_date = user.intervention_start_date]_vars

(***************************************************************************)
(* SpecConcurrent: two /updates requests handled by two server threads     *)
(***************************************************************************)
\* app.run() serves every request in a thread of its own, and neither
\* updates_endpoint nor ContentSelection.update takes a lock: a thread may be
\* preempted between any two statements. The steps below are the application
\* of one merged event (3c) and the two halves of _select_contents.
Threads == {1, 2}

\* the new missions of a request: they carry no recommendations, so that the
\* slot loop of the pass ends at once
RequestMissions ==
    [selection_timestamp : {<<1, 0>>, <<2, 0>>}, mission : Missions,
     recommendations : {<< >>}]

\* the locals of update() in a thread that has not received its request
IdleRequest(new_missions) ==
    [pc |-> "idle", payload |-> new_missions, items |-> << >>, i |-> 1,
     mission |-> None, start |-> 0]

InitConcurrent ==
    /\ pending = [p \in PlanIds |-> << >>]
    /\ proc_map = << >>
    /\ enqLog = << >>
    /\ boundLog = << >>
    /\ user = NoUser
    /\ engine = NoSelectionId
    /\ now = 0
    /\ hist = NoHist
    /\ plan \in {[IdlePlan EXCEPT !.threads = [t \in Threads |-> IdleRequest(p[t])]] :
                    p \in [Threads -> SeqsUpTo(RequestMissions, MaxEvents) \ {<< >>}]}

\* update() up to the loop of 3c: the events of the request, merged and sorted
request_received(t) ==
    /\ user.exists
    /\ plan.threads[t].pc = "idle"
    /\ plan' = [plan EXCEPT !.threads[t].pc = "apply",
                   !.threads[t].items =
                       SortEvents(MergeSelected(plan.threads[t].payload, now))]
    /\ UNCHANGED <<binderVars, user, engine, now, hist>>

\* one iteration of 'for ev in items'
request_apply(t) ==
    LET l == plan.threads[t] IN
    /\ l.pc = "apply"
    /\ l.i <= Len(l.items)
    /\ user' = ApplyEvent(user, l.items[l.i])
    /\ plan' = [plan EXCEPT !.threads[t].i = @ + 1]
    /\ hist' = [hist EXCEPT !.interleaving = Append(@, t), !.selections = @ + 1]
    /\ UNCHANGED <<binderVars, engine, now>>

\* _select_contents up to the slot loop, as SelectContentsBegin
request_select_begin(t) ==
    LET l == plan.threads[t]
        nm == get_new_missions(user)
    IN
    /\ l.pc = "apply"
    /\ l.i > Len(l.items)
    /\ IF user.new_plan_required /\ Len(nm) > 0
       THEN LET mission == LatestNewMission(user)
                older_ids == {nm[i].mission : i \in 1..Len(nm)} \ {mission.mission}
            IN  /\ user' = set_missions_plan_to_false(user, older_ids)
                /\ engine' = get_resources_to_send(engine, 0)
                /\ plan' = [plan EXCEPT !.threads[t].pc = "planning",
                                        !.threads[t].mission = mission.mission,
                                        !.threads[t].start = mission.selection_timestamp]
       ELSE /\ plan' = [plan EXCEPT !.threads[t].pc = "done"]
            /\ UNCHANGED <<user, engine>>
    /\ UNCHANGED <<binderVars, now, hist>>

\* the rest of _select_contents, as SelectContentsEnd
request_select_end(t) ==
    LET l == plan.threads[t] IN
    /\ l.pc = "planning"
    /\ user' = [set_missions_plan_to_false(user, {l.mission}) EXCEPT
                   !.new_plan_required = FALSE,
                   !.selected_contents =
                       [contents |-> << >>, mission_start_time |-> l.start,
                        plan_id |-> engine.plan_id]]
    /\ engine' = rotate_plan_id(engine)
    /\ plan' = [plan EXCEPT !.threads[t].pc = "done"]
    /\ hist' = [hist EXCEPT !.slates = @ + 1]
    /\ UNCHANGED <<binderVars, now>>

NextConcurrent ==
    \/ ~user.exists /\ add_users
    \/ \E t \in Threads : request_received(t)
    \/ \E t \in Threads : request_apply(t)
    \/ \E t \in Threads : request_select_begin(t)
    \/ \E t \in Threads : request_select_end(t)

SpecConcurrent == InitConcurrent /\ [][NextConcurrent]_vars

\* C21: the batches of two concurrent requests do not interleave: the events
\* of one request are not applied between two events of the other, and no
\* pass generates a slate while the other request is half applied
BatchesDoNotInterleave ==
    LET s == hist.interleaving
        l == plan.threads
    IN  /\ \A i, j, k \in 1..Len(s) : (i < j /\ j < k /\ s[i] = s[k]) => s[j] = s[i]
        /\ \A t1, t2 \in DOMAIN l :
              ~(/\ l[t1].pc = "planning"
                /\ l[t2].pc = "apply"
                /\ 1 < l[t2].i /\ l[t2].i <= Len(l[t2].items))

(***************************************************************************)
(* SpecBinderRace: the binder called from two server threads               *)
(***************************************************************************)
\* bind_on_sent calls of the specification
MaxBinds == 2

\* the deque objects: pending[1] is the content of the deque that
\* self.pending[u][1] holds, whose identity is cur; orphans are the deques
\* bind_on_sent replaced, which a thread may still hold a reference to; next
\* numbers the calls of bind_on_sent and the deques they create
InitHeap == [cur |-> 0, next |-> 1, orphans |-> EmptyDict]

\* the locals of a thread that is not inside the binder
IdleBinderCall ==
    [pc |-> "idle", dq |-> 0, new_dq |-> << >>, bound |-> NoSnap, snap |-> NoSnap,
     rec_id |-> None, mission_id |-> None, process_id |-> 0]

InitBinderRace ==
    /\ pending = [p \in BinderPlans |-> << >>]
    /\ proc_map = << >>
    /\ enqLog = [p \in BinderPlans |-> << >>]
    /\ boundLog = << >>
    /\ user = NoUser
    /\ engine = NoSelectionId
    /\ plan = [IdlePlan EXCEPT !.threads = [t \in Threads |-> IdleBinderCall],
                               !.heap = InitHeap]
    /\ now = 0
    /\ hist = NoHist

\* the content of the deque object ref
Deref(ref) == IF ref = plan.heap.cur THEN pending[1] ELSE plan.heap.orphans[ref]

\* enqueue_decision, the evaluation of self.pending[user_id][plan_id]; the
\* call is entered in enqLog
race_enqueue_fetch(t, rec, mission) ==
    LET n == Len(enqLog[1]) + 1 IN
    /\ plan.threads[t].pc = "idle"
    /\ n <= MaxSnaps
    /\ plan' = [plan EXCEPT !.threads[t] =
                   [IdleBinderCall EXCEPT !.pc = "append", !.dq = plan.heap.cur,
                        !.snap = Snapshot(10 + n, n, rec, mission, BinderFv)]]
    /\ enqLog' = [enqLog EXCEPT ![1] = Append(@, plan'.threads[t].snap)]
    /\ UNCHANGED <<pending, proc_map, boundLog, user, engine, now, hist>>

\* enqueue_decision, .append(snapshot) on the deque it evaluated
race_enqueue_append(t) ==
    LET l == plan.threads[t] IN
    /\ l.pc = "append"
    /\ IF l.dq = plan.heap.cur
       THEN /\ pending' = [pending EXCEPT ![1] = Append(@, l.snap)]
            /\ plan' = [plan EXCEPT !.threads[t] = IdleBinderCall]
       ELSE /\ plan' = [plan EXCEPT !.threads[t] = IdleBinderCall,
                                    !.heap.orphans[l.dq] = Append(@, l.snap)]
            /\ UNCHANGED pending
    /\ UNCHANGED <<proc_map, enqLog, boundLog, user, engine, now, hist>>

\* bind_on_sent, lines 43 to 45
race_bind_begin(t, rec, mission) ==
    /\ plan.threads[t].pc = "idle"
    /\ plan.heap.next <= MaxBinds
    /\ plan' = [plan EXCEPT !.threads[t] =
                   [IdleBinderCall EXCEPT !.pc = "scan", !.dq = plan.heap.cur,
                        !.rec_id = rec, !.mission_id = mission,
                        !.process_id = plan.heap.next],
                            !.heap.next = @ + 1]
    /\ UNCHANGED <<binderVars, user, engine, now, hist>>

\* bind_on_sent, one test of 'while dq' and the iteration that follows it
race_bind_scan(t) ==
    LET l == plan.threads[t]
        dq == Deref(l.dq)
        snap == Head(dq)
        l1 == IF l.bound = NoSnap /\ SnapMatches(snap, l.rec_id, l.mission_id)
              THEN [l EXCEPT !.bound = snap]
              ELSE [l EXCEPT !.new_dq = Append(@, snap)]
    IN
    /\ l.pc = "scan"
    /\ IF dq = << >>
       THEN /\ plan' = [plan EXCEPT !.threads[t].pc = "assign"]
            /\ UNCHANGED pending
       ELSE IF l.dq = plan.heap.cur
       THEN /\ pending' = [pending EXCEPT ![1] = Tail(dq)]
            /\ plan' = [plan EXCEPT !.threads[t] = l1]
       ELSE /\ plan' = [plan EXCEPT !.threads[t] = l1, !.heap.orphans[l.dq] = Tail(dq)]
            /\ UNCHANGED pending
    /\ UNCHANGED <<proc_map, enqLog, boundLog, user, engine, now, hist>>

\* bind_on_sent, line 56: self.pending[user_id][plan_id] = new_dq
race_bind_assign(t) ==
    LET l == plan.threads[t] IN
    /\ l.pc = "assign"
    /\ pending' = [pending EXCEPT ![1] = l.new_dq]
    /\ plan' = [plan EXCEPT !.threads[t].pc = "record",
                            !.heap.cur = l.process_id,
                            !.heap.orphans = Put(@, plan.heap.cur, pending[1])]
    /\ UNCHANGED <<proc_map, enqLog, boundLog, user, engine, now, hist>>

\* bind_on_sent, lines 59 to 61
race_bind_record(t) ==
    LET l == plan.threads[t] IN
    /\ l.pc = "record"
    /\ proc_map' = IF l.bound = NoSnap THEN proc_map
                   ELSE BindRecord(proc_map, l.process_id, l.bound)
    /\ boundLog' = IF l.bound = NoSnap THEN boundLog
                   ELSE LogBound(boundLog, l.bound, l.process_id)
    /\ plan' = [plan EXCEPT !.threads[t] = IdleBinderCall]
    /\ UNCHANGED <<pending, enqLog, user, engine, now, hist>>

NextBinderRace ==
    \/ \E t \in Threads, it \in BinderItems : race_enqueue_fetch(t, it[1], it[2])
    \/ \E t \in Threads : race_enqueue_append(t)
    \/ \E t \in Threads, r \in BinderRecs, m \in BinderMissions : race_bind_begin(t, r, m)
    \/ \E t \in Threads : race_bind_scan(t)
    \/ \E t \in Threads : race_bind_assign(t)
    \/ \E t \in Threads : race_bind_record(t)

SpecBinderRace == InitBinderRace /\ [][NextBinderRace]_vars

\* C22: whatever the interleaving of two threads inside the binder, once
\* both have returned every snapshot that was enqueued is either still in
\* the pending queue or bound, and none is bound to two correlation ids
BinderMutualExclusion ==
    (\A t \in Threads : plan.threads[t].pc = "idle") =>
        /\ \A i \in 1..Len(enqLog[1]) :
              enqLog[1][i] \in Range(pending[1]) \/ IsBound(enqLog[1][i])
        /\ \A sid \in DOMAIN boundLog : Len(boundLog[sid]) = 1

(***************************************************************************)
(* SpecMalformed: a batch whose feedback holds malformed 'sent' events     *)
(***************************************************************************)
\* the 'notification_sent' events of the batch, all of SRc1 for SM1: the
\* timestamp is the day of the batch or a string that does not parse, and
\* properties tells whether the event carries its "properties"
SentEvents ==
    [process_id : 1..2, timestamp : {<<0, 0>>, BadTs}, properties : BOOLEAN]

\* key(a) <= key(b) for key = (ts, pri, pid) of _sort_feedback_events: a
\* timestamp that does not parse counts as t, and the events are of one kind
FeedbackKeyLE(a, b, t) ==
    LET ta == IF IsIso(a.timestamp) THEN parse_client_ts(a.timestamp) ELSE t
        tb == IF IsIso(b.timestamp) THEN parse_client_ts(b.timestamp) ELSE t
    IN  ta < tb \/ (ta = tb /\ a.process_id <= b.process_id)

\* sorted(events, key=key)
RECURSIVE sort_feedback_events(_, _)
sort_feedback_events(events, t) ==
    IF events = << >> THEN << >>
    ELSE LET e == events[Len(events)]
             sorted == sort_feedback_events(SubSeq(events, 1, Len(events) - 1), t)
             n == Cardinality({i \in 1..Len(sorted) : FeedbackKeyLE(sorted[i], e, t)})
         IN  SubSeq(sorted, 1, n) \o <<e>> \o SubSeq(sorted, n + 1, Len(sorted))

InitMalformed ==
    /\ pending = [p \in PlanIds |-> << >>]
    /\ proc_map = << >>
    /\ enqLog = << >>
    /\ boundLog = << >>
    /\ user = NoUser
    /\ engine = NoSelectionId
    /\ plan = IdlePlan
    /\ now = 0
    /\ hist \in {[NoHist EXCEPT !.payload.events = e] :
                    e \in {b \in SeqsUpTo(SentEvents, MaxEvents) :
                              /\ b # << >>
                              /\ \A i, j \in 1..Len(b) :
                                    i # j => b[i].process_id # b[j].process_id}}

\* one iteration of the loop of update_all over the sorted events: lines 49
\* and 50 raise KeyError for an event without properties and ValueError for
\* a timestamp that does not parse, nothing catches them and the update ends
update_all_next ==
    LET events == sort_feedback_events(hist.payload.events, now)
        ev == events[hist.events + 1]
    IN
    /\ user.exists
    /\ hist.selections > 0
    /\ hist.updates = 0
    /\ hist.slates = 0
    /\ plan.pc = "idle"
    /\ hist.events < Len(events)
    /\ IF ev.properties /\ IsIso(ev.timestamp)
       THEN process_sent_recommendation("SRc1", "SM1", ev.process_id)
       ELSE /\ hist' = [hist EXCEPT !.updates = @ + 1, !.raised = @ + 1]
            /\ UNCHANGED <<binderVars, user, engine, plan, now>>

\* the batch registers the user, carries one mission selection and the
\* feedback, and asks for a slate
NextMalformed ==
    \/ ~user.exists /\ add_users
    \/ hist.selections = 0 /\ apply_mission_selected("SM1", <<"SRc1">>)
    \/ update_all_next
    \/ /\ hist.updates = 0
       /\ hist.events = Len(hist.payload.events)
       /\ SelectContentsBegin
    \/ SlotStep
    \/ SelectContentsEnd

SpecMalformed == InitMalformed /\ [][NextMalformed]_vars

\* C23: a malformed 'sent' event is skipped and the rest of the batch is
\* applied: once the update is over, every well-formed 'sent' event of the
\* batch has been tracked and the slate has been generated
MalformedSkipped ==
    LET b == hist.payload.events IN
    (hist.updates > 0 \/ hist.slates > 0) =>
        /\ \A i \in 1..Len(b) :
              (b[i].properties /\ IsIso(b[i].timestamp)) =>
                  \E k \in 1..Len(user.history) : user.history[k].pid = b[i].process_id
        /\ hist.slates > 0

\* C24: an end-of-mission 'rated' event of an item the user holds no
\* end-of-mission feature vector for changes no bandit and not the rating
\* log, and raises nothing
EowMissingSkipped ==
    [][(/\ hist'.events = hist.events + 1
        /\ hist'.last_event.event_name = "notification_rated"
        /\ hist'.last_event.content_type = "recommendation"
        /\ hist'.last_event.is_end_misison
        /\ hist'.last_event.content_id \notin DOMAIN user.eow_rec_id_to_fv)
       => (/\ Mabs(engine') = Mabs(engine)
           /\ user'.rating_history = user.rating_history
           /\ hist'.raised = hist.raised)]_vars

\* such an event, of a mission the updater learns from, was the last one
\* processed
EowMissingSkippedWitness ==
    /\ hist.last_event.event_name = "notification_rated"
    /\ hist.last_event.content_type = "recommendation"
    /\ hist.last_event.is_end_misison
    /\ hist.last_event.content_id \notin DOMAIN user.eow_rec_id_to_fv
    /\ user.exists
    /\ Learns(user, hist.last_event.mission_id, now)

(***************************************************************************)
(* SpecConfig: construction under every configuration, then feedback       *)
(***************************************************************************)
\* the types the three _init_*_mab know, and one they do not
ResourceMabTypes == {"BernoulliBetaTS", "ResourceOptimalBandit", "RandomBandit"}
InterventionMabTypes == {"LogisticLaplaceTS", "None"}
RecommendationMabTypes == {"BernoulliBetaTS", "RecommendationOptimalBandit", "RandomBandit"}

\* MABInitialiser.__init__ returns (no _init_*_mab raises ValueError)
MABInitialiser(e) ==
    /\ e.resource_mab_type \in ResourceMabTypes
    /\ e.intervention_mab_type \in InterventionMabTypes
    /\ e.recommendation_mab_type \in RecommendationMabTypes

\* the configuration is any of config.py's values or an unknown one; the
\* module cs_api has not been imported yet
InitConfig ==
    /\ pending = [p \in PlanIds |-> << >>]
    /\ proc_map = << >>
    /\ enqLog = << >>
    /\ boundLog = << >>
    /\ user = NoUser
    /\ plan = IdlePlan
    /\ now = 0
    /\ hist = NoHist
    /\ engine \in {[NoSelectionId EXCEPT !.status = "new",
                        !.resource_mab_type = c[1], !.intervention_mab_type = c[2],
                        !.recommendation_mab_type = c[3], !.reward_type = c[4]] :
                      c \in {"BernoulliBetaTS", "Unknown"}
                            \X {"LogisticLaplaceTS", "None", "Unknown"}
                            \X {"BernoulliBetaTS", "Unknown"}
                            \X {"thumbs", "float", "Unknown"}}

\* content_selection = ContentSelection(time_handler) at import of cs_api
construct ==
    /\ engine.status = "new"
    /\ engine' = [engine EXCEPT !.status = IF MABInitialiser(engine) THEN "running"
                                           ELSE "failed"]
    /\ UNCHANGED <<binderVars, user, plan, now, hist>>

NextConfig ==
    \/ construct
    \/ engine.status = "running" /\ ~user.exists /\ add_users
    \/ /\ engine.status = "running"
       /\ hist.selections < 1
       /\ apply_mission_selected("SM1", <<"SRc1">>)
    \/ /\ engine.status = "running"
       /\ hist.events < MaxFeedback
       /\ process_sent_recommendation("SRc1", "SM1", 1)
    \/ /\ engine.status = "running"
       /\ hist.events < MaxFeedback
       /\ \E eow \in BOOLEAN : process_rated_recommendation("SRc1", "SM1", 1, eow)
    \/ /\ engine.status = "running"
       /\ hist.events < MaxFeedback
       /\ process_rated_resource("SRs1", "SM1", 1)

SpecConfig == InitConfig /\ [][NextConfig]_vars

\* C25: an unknown bandit type or an unknown reward type makes construction
\* fail: the engine never serves under such a configuration
ConfigErrorsFatalAtStartup ==
    engine.status = "running" => (MABInitialiser(engine) /\ ~reward_raises(engine))

(***************************************************************************)
(* SpecClock: the TimeHandler and the two parsers of client timestamps     *)
(***************************************************************************)
\* ticks of the wall clock
MaxWall == 2

REAL == "REAL"
FROZEN == "FROZEN"

\* a datetime is <<local time, utc offset>> if aware and <<local time>> if
\* naive; isoparse turns a string into the datetime of the same shape
AwareTimes == (0..2) \X {0, 1}
NaiveTimes == {<<l>> : l \in 0..2}

IsNaive(dt) == Len(dt) = 1

\* _to_utc: dt.astimezone(timezone.utc)
to_utc(dt) == <<dt[1] - dt[2], 0>>

\* the point in time an aware datetime stands for
Instant(dt) == dt[1] - dt[2]

\* the outcome of a parse
ParseResult(by, raw, ok, value) == [by |-> by, raw |-> raw, ok |-> ok, value |-> value]

\* TimeHandler.parse_client_ts: a naive datetime is taken as UTC, with a
\* warning; isoparse raises ValueError for a string that does not parse
TimeHandler_parse_client_ts(ts) ==
    IF ts = BadTs THEN ParseResult("TimeHandler", ts, FALSE, << >>)
    ELSE IF IsNaive(ts) THEN ParseResult("TimeHandler", ts, TRUE, to_utc(<<ts[1], 0>>))
    ELSE ParseResult("TimeHandler", ts, TRUE, to_utc(ts))

\* datetime_helpers.parse_client_ts, outcome included: it raises ValueError
\* for a naive datetime
helpers_parse_client_ts(ts) ==
    IF IsIso(ts) THEN ParseResult("datetime_helpers", ts, TRUE, <<parse_client_ts(ts), 0>>)
    ELSE ParseResult("datetime_helpers", ts, FALSE, << >>)

\* TimeHandler(): mode REAL, the cursor is the wall clock at construction
TimeHandler(wall) ==
    [mode |-> REAL, start_time |-> << >>, current_time |-> <<wall, 0>>, wall |-> wall]

\* the property now
TimeHandler_now(th) == IF th.mode = REAL THEN <<th.wall, 0>> ELSE th.current_time

\* a set that moves the cursor whatever the mode
set_cursor_any_mode(th, new_time) ==
    IF IsNaive(new_time) THEN th ELSE [th EXCEPT !.current_time = to_utc(new_time)]

\* set, for an aware new_time
set_cursor(th, new_time) ==
    IF th.mode = REAL THEN th ELSE [th EXCEPT !.current_time = to_utc(new_time)]

InitClock ==
    /\ pending = [p \in PlanIds |-> << >>]
    /\ proc_map = << >>
    /\ enqLog = << >>
    /\ boundLog = << >>
    /\ user = NoUser
    /\ engine = NoSelectionId
    /\ plan = IdlePlan
    /\ now = TimeHandler(0)
    /\ hist = NoHist

\* the system clock advances
wall_tick ==
    /\ now.wall < MaxWall
    /\ now' = [now EXCEPT !.wall = @ + 1]
    /\ UNCHANGED <<binderVars, user, engine, plan, hist>>

\* set_mode with a valid mode: freezing keeps the cursor
TimeHandler_set_mode(mode) ==
    /\ now' = IF mode = now.mode THEN now
              ELSE IF mode = FROZEN
                   THEN [now EXCEPT !.mode = mode, !.current_time = to_utc(@)]
              ELSE [now EXCEPT !.mode = mode]
    /\ UNCHANGED <<binderVars, user, engine, plan, hist>>

\* set: ignored in REAL mode; _ensure_tz raises for a naive new_time
TimeHandler_set(new_time) ==
    LET raises == now.mode = FROZEN /\ IsNaive(new_time) IN
    /\ now' = IF raises THEN now ELSE set_cursor(now, new_time)
    /\ hist' = [hist EXCEPT
                   !.last_set = [op |-> "set", mode |-> now.mode, time |-> new_time,
                                 ok |-> ~raises],
                   !.last_effective =
                       IF raises \/ now.mode = REAL THEN @ ELSE new_time]
    /\ UNCHANGED <<binderVars, user, engine, plan>>

\* set_start_time: records the start, and in FROZEN mode moves the cursor
TimeHandler_set_start_time(start_time) ==
    LET raises == IsNaive(start_time) IN
    /\ now' = IF raises THEN now
              ELSE IF now.mode = REAL THEN [now EXCEPT !.start_time = to_utc(start_time)]
              ELSE [now EXCEPT !.start_time = to_utc(start_time),
                               !.current_time = to_utc(start_time)]
    /\ hist' = [hist EXCEPT
                   !.last_set = [op |-> "set_start_time", mode |-> now.mode,
                                 time |-> start_time, ok |-> ~raises],
                   !.last_effective =
                       IF raises \/ now.mode = REAL THEN @ ELSE start_time]
    /\ UNCHANGED <<binderVars, user, engine, plan>>

\* a client timestamp is parsed by the handler
handler_parses(ts) ==
    /\ hist' = [hist EXCEPT !.parsed = TimeHandler_parse_client_ts(ts)]
    /\ UNCHANGED <<binderVars, user, engine, plan, now>>

\* a client timestamp is parsed by the helper
helper_parses(ts) ==
    /\ hist' = [hist EXCEPT !.parsed = helpers_parse_client_ts(ts)]
    /\ UNCHANGED <<binderVars, user, engine, plan, now>>

NextClock ==
    \/ wall_tick
    \/ \E mode \in {REAL, FROZEN} : TimeHandler_set_mode(mode)
    \/ \E t \in AwareTimes \cup NaiveTimes : TimeHandler_set(t)
    \/ \E t \in AwareTimes \cup NaiveTimes : TimeHandler_set_start_time(t)
    \/ \E ts \in AwareTimes \cup NaiveTimes \cup {BadTs} : handler_parses(ts)
    \/ \E ts \in AwareTimes \cup NaiveTimes \cup {BadTs} : helper_parses(ts)

SpecClock == InitClock /\ [][NextClock]_vars

\* C26: parsing a client timestamp without an offset yields an error, never
\* a timestamp
NaiveIsError == IsNaive(hist.parsed.raw) => ~hist.parsed.ok

\* C27 as stated: a set in REAL mode changes neither the mode nor the cursor
\* nor now, and in FROZEN mode now is the time given by the most recent set
\* or set_start_time call (one that returned, with an aware time)
ClockModesAsStated ==
    [][/\ (hist'.last_set # hist.last_set /\ hist'.last_set.op = "set" /\ now.mode = REAL)
            => /\ now'.mode = now.mode
               /\ now'.current_time = now.current_time
               /\ TimeHandler_now(now') = TimeHandler_now(now)
       /\ (now'.mode = FROZEN /\ hist'.last_set.op # None /\ hist'.last_set.ok
             /\ ~IsNaive(hist'.last_set.time))
            => Instant(TimeHandler_now(now')) = Instant(hist'.last_set.time)]_vars

\* C27: a set in REAL mode changes neither the mode nor the cursor nor now,
\* and in FROZEN mode now is the time given by the most recent set or
\* set_start_time call that was made in FROZEN mode with an aware time; it
\* changes with such a call only
ClockModes ==
    [][/\ (hist'.last_set # hist.last_set /\ hist'.last_set.op = "set" /\ now.mode = REAL)
            => /\ now'.mode = now.mode
               /\ now'.current_time = now.current_time
               /\ TimeHandler_now(now') = TimeHandler_now(now)
       /\ (now'.mode = FROZEN /\ hist'.last_effective # << >>)
            => Instant(TimeHandler_now(now')) = Instant(hist'.last_effective)
       /\ (now.mode = FROZEN /\ now'.mode = FROZEN
             /\ TimeHandler_now(now') # TimeHandler_now(now))
            => (hist'.last_set # hist.last_set /\ hist'.last_set.ok
                  /\ hist'.last_set.mode = FROZEN)]_vars

\* the handler is frozen at the time of an earlier set, after a set made in
\* REAL mode with another time was ignored and the wall clock moved on
ClockModesWitness ==
    /\ now.mode = FROZEN
    /\ hist.last_effective # << >>
    /\ hist.last_set.op = "set" /\ hist.last_set.mode = REAL
    /\ ~IsNaive(hist.last_set.time)
    /\ Instant(hist.last_set.time) # Instant(hist.last_effective)
    /\ now.wall # Instant(hist.last_effective)

(***************************************************************************)
(* SpecRead: reads of the selected contents between the update batches     *)
(***************************************************************************)
\* the times a reader asks for, as the endpoint parsed them
ReadTimes == {<<0, 0>>, <<2, 1>>, <<2, 0>>}

\* the bounds of a read: None (<< >>) or an aware datetime
ReadBounds == {<< >>} \cup ReadTimes

\* get_selected_contents with the end bound included in the window
get_selected_contents_closed(u, start_time, end_time) ==
    IF ~u.exists \/ u.selected_contents = NoContents THEN NoContents
    ELSE LET mission_start ==
                 Instant(TimeHandler_parse_client_ts(
                             <<u.selected_contents.mission_start_time, 0>>).value)
         IN  IF start_time # << >> /\ mission_start < Instant(start_time) THEN NoContents
             ELSE IF end_time # << >> /\ mission_start > Instant(end_time) THEN NoContents
             ELSE u.selected_contents

\* get_selected_contents, the entry of the one user: NoContents when the
\* user is left out of the result.  mission_start_time is the string utc_iso
\* wrote, an aware time at offset 0
get_selected_contents(u, start_time, end_time) ==
    IF ~u.exists \/ u.selected_contents = NoContents THEN NoContents
    ELSE LET mission_start ==
                 Instant(TimeHandler_parse_client_ts(
                             <<u.selected_contents.mission_start_time, 0>>).value)
         IN  IF start_time # << >> /\ mission_start < Instant(start_time) THEN NoContents
             ELSE IF end_time # << >> /\ mission_start >= Instant(end_time) THEN NoContents
             ELSE u.selected_contents

\* GET /selected_contents between two updates
selected_contents_endpoint(start_time, end_time) ==
    /\ plan.pc = "idle"
    /\ hist' = [hist EXCEPT !.read =
                   [done |-> TRUE, start_time |-> start_time, end_time |-> end_time,
                    result |-> get_selected_contents(user, start_time, end_time),
                    latest |-> hist.last_slate]]
    /\ UNCHANGED <<binderVars, user, engine, plan, now>>

NextRead ==
    \/ hist.registrations < MaxRegistrations /\ add_users
    \/ /\ hist.selections < MaxSelections
       /\ \E m \in Missions, l \in SysLists : apply_mission_selected(m, l)
    \/ hist.raised < MaxRaises /\ SelectContentsBegin
    \/ SlotStep
    \/ SelectContentsEnd
    \/ hist.ticks < MaxTicks /\ Tick(1)
    \/ \E s \in ReadBounds, e \in ReadBounds : selected_contents_endpoint(s, e)

SpecRead == InitSys /\ [][NextRead]_vars

\* the slate sl, whose start is the instant t, lies in [a, b)
InWindow(sl, a, b) ==
    /\ sl # NoContents
    /\ Instant(a) <= sl.mission_start_time
    /\ sl.mission_start_time < Instant(b)

\* C28: a read with both bounds returns the user's most recently generated
\* slate exactly when start <= mission_start_time < end, and of two reads
\* over adjacent windows [a,b) and [b,c) exactly one returns a slate that
\* starts in [a,c)
HalfOpenWindow ==
    /\ (hist.read.done /\ hist.read.start_time # << >> /\ hist.read.end_time # << >>)
          => /\ hist.read.result \in {NoContents, hist.read.latest}
             /\ hist.read.result # NoContents
                   <=> InWindow(hist.read.latest, hist.read.start_time, hist.read.end_time)
    /\ \A a \in ReadTimes, b \in ReadTimes, c \in ReadTimes :
          (Instant(a) <= Instant(b) /\ Instant(b) <= Instant(c)
             /\ InWindow(hist.last_slate, a, c))
          => (get_selected_contents(user, a, b) = hist.last_slate)
                # (get_selected_contents(user, b, c) = hist.last_slate)

\* the same for a user whose id was registered once
HalfOpenWindowRegisteredOnce == hist.registrations <= 1 => HalfOpenWindow

\* a read over [b, c) that returned a slate starting at b, which the read
\* over the window before, [a, b), leaves out
HalfOpenWindowWitness ==
    /\ hist.read.done /\ hist.read.start_time # << >> /\ hist.read.end_time # << >>
    /\ hist.read.result # NoContents
    /\ hist.read.result = hist.read.latest
    /\ hist.read.result.mission_start_time = Instant(hist.read.start_time)
    /\ \E a \in ReadTimes :
          /\ Instant(a) < Instant(hist.read.start_time)
          /\ get_selected_contents(user, a, hist.read.start_time) = NoContents
          /\ user.selected_contents = hist.read.result

(***************************************************************************)
(* SpecEvict: the correlation cache filled through set_snapshot            *)
(***************************************************************************)
\* calls of set_snapshot
MaxInserts == 3

\* the keys proc_map loses when pm becomes pm1 on the insertion of pid
Evicted(pm, pm1, pid) ==
    LET before == DictPut(pm, pid, NoSnap)
    IN  SelectSeq([i \in 1..Len(before) |-> before[i].pid],
                  LAMBDA k : k \notin ProcKeys(pm1))

\* set_snapshot, with the log of what was inserted and what was evicted
cache_set_snapshot(pid, rec, mission, fv) ==
    /\ Len(hist.inserted) < MaxInserts
    /\ proc_map' = Remember(proc_map, pid, Snapshot(0, 0, rec, mission, fv))
    /\ hist' = [hist EXCEPT !.inserted = Append(@, pid),
                            !.evicted = @ \o Evicted(proc_map, proc_map', pid)]
    /\ UNCHANGED <<pending, enqLog, boundLog, user, engine, plan, now>>

\* release, logged
cache_release(pid) ==
    /\ proc_map' = DictPop(proc_map, pid)
    /\ hist' = [hist EXCEPT !.released = TRUE]
    /\ UNCHANGED <<pending, enqLog, boundLog, user, engine, plan, now>>

NextEvict ==
    \/ \E pid \in Pids, it \in BinderItems, fv \in {NoFv, BinderFv} :
          cache_set_snapshot(pid, it[1], it[2], fv)
    \/ \E pid \in Pids : cache_release(pid)

SpecEvict == InitBinder /\ [][NextEvict]_vars

\* the ids of the sequence are pairwise distinct
Distinct(seq) == \A i \in 1..Len(seq), j \in 1..Len(seq) : seq[i] = seq[j] => i = j

MaxWrites == 2

\* _get_conn(retries=5, delay=3)
retries == 5

\* the writes of bandit samples and bandit updates
AuditWrites ==
    {"add_mab_sample", "add_intervention_mab_sample",
     "add_mab_update", "add_intervention_mab_update"}

\* what an attempt (psycopg2.connect and SET TIME ZONE) ends with
ConnectOutcomes == {"connection", "OperationalError", "Error"}

\* the locals of a write: where it is, the loop index i of _get_conn, the
\* attempts that failed
StoreCall(pc, write, i, failed) == [pc |-> pc, write |-> write, i |-> i, failed |-> failed]

IdleStore == StoreCall("idle", None, 0, 0)

InitStore ==
    /\ pending = [p \in BinderPlans |-> << >>]
    /\ proc_map = << >>
    /\ enqLog = [p \in BinderPlans |-> << >>]
    /\ boundLog = << >>
    /\ user = NoUser
    /\ engine = NoSelectionId
    /\ plan = [IdlePlan EXCEPT !.store = IdleStore]
    /\ now = 0
    /\ hist = NoHist

\* a loop that tries again whatever the number of attempts made
range_unbounded(i, n) == TRUE

\* for i in range(retries): the loop has an iteration left
range_has_next(i, n) == i < n

\* the write calls self._get_conn()
store_write_begin(write) ==
    /\ plan.store.pc = "idle"
    /\ Len(hist.store_log) < MaxWrites
    /\ plan' = [plan EXCEPT !.store = StoreCall("connect", write, 0, 0)]
    /\ UNCHANGED <<binderVars, user, engine, now, hist>>

\* one iteration of the loop of _get_conn: the connection is returned, an
\* OperationalError is caught and printed, any other exception leaves
\* _get_conn
get_conn_attempt(outcome) ==
    /\ plan.store.pc = "connect"
    /\ range_has_next(plan.store.i, retries)
    /\ plan' = [plan EXCEPT !.store =
                   IF outcome = "connection" THEN [@ EXCEPT !.pc = "connected"]
                   ELSE IF outcome = "OperationalError"
                        THEN [@ EXCEPT !.pc = "sleep", !.failed = @ + 1]
                   ELSE [@ EXCEPT !.pc = "raised", !.failed = @ + 1]]
    /\ UNCHANGED <<binderVars, user, engine, now, hist>>

\* time.sleep(delay) returns and the loop goes on
get_conn_sleep ==
    /\ plan.store.pc = "sleep"
    /\ plan' = [plan EXCEPT !.store = [@ EXCEPT !.pc = "connect", !.i = @ + 1]]
    /\ UNCHANGED <<binderVars, user, engine, now, hist>>

\* the loop is over: raise Exception("Failed to connect ...")
get_conn_exhausted ==
    /\ plan.store.pc = "connect"
    /\ ~range_has_next(plan.store.i, retries)
    /\ plan' = [plan EXCEPT !.store = [@ EXCEPT !.pc = "raised"]]
    /\ UNCHANGED <<binderVars, user, engine, now, hist>>

\* the rest of the write: INSERT, commit, close
store_write_end ==
    /\ plan.store.pc = "connected"
    /\ plan' = [plan EXCEPT !.store = IdleStore]
    /\ hist' = [hist EXCEPT !.store_log =
                   Append(@, [write |-> plan.store.write, outcome |-> "written",
                              failed |-> plan.store.failed])]
    /\ UNCHANGED <<binderVars, user, engine, now>>

\* the exception of _get_conn leaves the write
store_write_raises ==
    /\ plan.store.pc = "raised"
    /\ plan' = [plan EXCEPT !.store = IdleStore]
    /\ hist' = [hist EXCEPT !.store_log =
                   Append(@, [write |-> plan.store.write, outcome |-> "raised",
                              failed |-> plan.store.failed])]
    /\ UNCHANGED <<binderVars, user, engine, now>>

NextStore ==
    \/ \E w \in AuditWrites : store_write_begin(w)
    \/ \E o \in ConnectOutcomes : get_conn_attempt(o)
    \/ get_conn_sleep
    \/ get_conn_exhausted
    \/ store_write_end
    \/ store_write_raises

SpecStore == InitStore /\ [][NextStore]_vars

\* the write is one sequential call: it takes its next step, and every
\* attempt and every sleep returns
SpecStoreFair == SpecStore /\ WF_vars(NextStore)

\* C30: a write that asks for the connection gets it or gets an exception,
\* and by then at most `retries` attempts have failed
GetConnTerminates ==
    /\ [](plan.store.failed <= retries)
    /\ (plan.store.pc = "connect") ~> (plan.store.pc \in {"connected", "raised"})

\* _get_conn gave up after `retries` failed attempts
GetConnTerminatesWitness ==
    /\ plan.store.pc = "raised"
    /\ plan.store.failed = retries
    /\ plan.store.i = retries

(***************************************************************************)
(* SpecFeedbackOrder: the feedback events of a batch, sorted and processed *)
(***************************************************************************)
\* the event names the feedback handlers select by
FeedbackNames == {"notification_sent", "notification_opened", "notification_rated"}

\* the feedback events of the batch of one user
BatchEvents == [event_name : FeedbackNames, timestamp : {<<1, 0>>, <<2, 0>>}, process_id : 1..2]

\* order.get(typ, 99) of _sort_feedback_events
order(typ) ==
    IF typ = "recommendation_sent" THEN 0
    ELSE IF typ = "recommendation_opened" THEN 1
    ELSE IF typ \in {"recommendation_rated", "resource_rated"} THEN 2
    ELSE 99

\* key(a) <= key(b) for key = (ts, pri, pid)
KeyLE(a, b, t) ==
    LET ta == IF IsIso(a.timestamp) THEN parse_client_ts(a.timestamp) ELSE t
        tb == IF IsIso(b.timestamp) THEN parse_client_ts(b.timestamp) ELSE t
        pa == order(a.event_name)
        pb == order(b.event_name)
    IN  \/ ta < tb
        \/ ta = tb /\ pa < pb
        \/ ta = tb /\ pa = pb /\ a.process_id <= b.process_id

\* sorted(events, key=key), which keeps the order of events of equal keys
RECURSIVE sorted_by_key(_, _)
sorted_by_key(events, t) ==
    IF events = << >> THEN << >>
    ELSE LET e == events[Len(events)]
             sorted == sorted_by_key(SubSeq(events, 1, Len(events) - 1), t)
             n == Cardinality({i \in 1..Len(sorted) : KeyLE(sorted[i], e, t)})
         IN  SubSeq(sorted, 1, n) \o <<e>> \o SubSeq(sorted, n + 1, Len(sorted))

InitFeedbackOrder ==
    /\ pending = [p \in PlanIds |-> << >>]
    /\ proc_map = << >>
    /\ enqLog = << >>
    /\ boundLog = << >>
    /\ user = User(0)
    /\ engine = NoSelectionId
    /\ plan = IdlePlan
    /\ now = 2
    /\ hist \in {[NoHist EXCEPT !.payload.events = e] :
                    e \in SeqsUpTo(BatchEvents, MaxEvents) \ {<< >>}}

\* update, lines 125-129: fb["events"] = self._sort_feedback_events(...)
update_sorts_feedback ==
    /\ hist.updates = 0
    /\ hist' = [hist EXCEPT !.updates = 1,
                            !.batch = sorted_by_key(hist.payload.events, now)]
    /\ UNCHANGED <<binderVars, user, engine, plan, now>>

\* update_all: the next event of fb["events"] goes through the handlers
update_all_event ==
    /\ hist.updates = 1
    /\ Len(hist.applied) < Len(hist.batch)
    /\ hist' = [hist EXCEPT !.applied = Append(@, hist.batch[Len(hist.applied) + 1])]
    /\ UNCHANGED <<binderVars, user, engine, plan, now>>

NextFeedbackOrder ==
    \/ update_sorts_feedback
    \/ update_all_event

SpecFeedbackOrder == InitFeedbackOrder /\ [][NextFeedbackOrder]_vars

\* C31: the feedback events of a user are processed in non-decreasing order
\* of timestamp, and of two events of one timestamp a 'sent' event is never
\* processed after an 'opened' or a 'rated' event
FeedbackProcessingOrder ==
    \A i \in 1..Len(hist.applied), j \in 1..Len(hist.applied) :
        i < j =>
          /\ parse_client_ts(hist.applied[i].timestamp) <= parse_client_ts(hist.applied[j].timestamp)
          /\ (parse_client_ts(hist.applied[i].timestamp) = parse_client_ts(hist.applied[j].timestamp)
                /\ hist.applied[j].event_name = "notification_sent")
             => hist.applied[i].event_name = "notification_sent"

\* the order of the timestamps alone
FeedbackTimestampOrder ==
    \A i \in 1..Len(hist.applied), j \in 1..Len(hist.applied) :
        i < j => parse_client_ts(hist.applied[i].timestamp) <= parse_client_ts(hist.applied[j].timestamp)

(***************************************************************************)
(* SpecPlans: 'sent' events of the plans of a user who is planned again    *)
(***************************************************************************)
\* the 'sent' event of the k-th decision still pending under plan_id: the
\* notification of a slate is delivered once the slate was returned
sent_of_plan(plan_id, k, pid) ==
    /\ plan_id # 0
    /\ plan_id <= user.selected_contents.plan_id
    /\ k <= Len(pending[plan_id])
    /\ sent_recommendation(pending[plan_id][k].rec_id, pending[plan_id][k].mission_id,
                           pid, plan_id)

NextPlans ==
    \/ ~user.exists /\ add_users
    \/ /\ hist.selections < MaxSelections
       /\ \E m \in Missions, l \in SysLists : apply_mission_selected(m, l)
    \/ hist.raised < MaxRaises /\ SelectContentsBegin
    \/ SlotStep
    \/ SelectContentsEnd
    \/ /\ hist.sents < MaxSent
       /\ \E p \in PlanIds, k \in 1..MAX_NUM_REC_PER_MISSION : sent_of_plan(p, k, hist.sents + 1)
    \/ hist.ticks < MaxTicks /\ Tick(1)

SpecPlans == InitSys /\ [][NextPlans]_vars

\* C32: a 'sent' event of an item decided in plan P is bound, if it is
\* bound, to a snapshot enqueued under P, also after the user was planned
\* again under a newer plan id
SentBindsWithinPlan ==
    hist.sent_plan.bound_from # 0 => hist.sent_plan.bound_from = hist.sent_plan.decided_in

\* the event of the plan the user was planned under last
SentBindsWithinLatestPlan ==
    (hist.sent_plan.bound_from # 0 /\ hist.sents = 1 /\ hist.slates = 1)
       => hist.sent_plan.bound_from = hist.sent_plan.decided_in

\* C33: with the intervention bandit enabled, an immediate 'rated' event
\* whose snapshot in the binder carries no feature vector raises nothing:
\* the update goes on with the events that follow
NullVectorNeverAborts ==
    [][(/\ hist'.events = hist.events + 1
        /\ hist'.last_event.event_name = "notification_rated"
        /\ hist'.last_event.content_type = "recommendation"
        /\ ~hist'.last_event.is_end_misison
        /\ engine.intervention_mab_type # "None"
        /\ DictGet(proc_map, hist'.last_event.process_id) # NoSnap
        /\ DictGet(proc_map, hist'.last_event.process_id).feature_vector = NoFv)
       => hist'.raised = hist.raised]_vars

(***************************************************************************)
(* SpecLearn: feedback on the items of slates that were generated          *)
(***************************************************************************)
NextLearn ==
    \/ ~user.exists /\ add_users
    \/ /\ hist.selections < MaxSelections
       /\ \E m \in Missions : apply_mission_selected(m, <<"SRc1">>)
    \/ hist.raised < MaxRaises /\ SelectContentsBegin
    \/ SlotStep
    \/ SelectContentsEnd
    \/ hist.ticks < MaxTicks /\ Tick(1)
    \/ /\ hist.events < MaxFeedback
       /\ \E m \in Missions : process_sent_recommendation("SRc1", m, 1)
    \/ /\ hist.events < MaxFeedback
       /\ \E m \in Missions, eow \in BOOLEAN : process_rated_recommendation("SRc1", m, 1, eow)

SpecLearn == InitFeedback /\ [][NextLearn]_vars

\* C34: a 'sent' event applied a second time (same item, mission,
\* correlation id and timestamp as the event applied just before) changes
\* neither the user's sent-item log nor the pending snapshots
SentReplayIdempotent ==
    [][(/\ hist'.events = hist.events + 1
        /\ hist.last_event.event_name = "notification_sent"
        /\ hist'.last_event = hist.last_event)
       => /\ user'.history = user.history
          /\ pending' = pending]_vars

\* the part of it about the pending snapshots
SentReplayConsumesOnce ==
    [][(/\ hist'.events = hist.events + 1
        /\ hist.last_event.event_name = "notification_sent"
        /\ hist'.last_event = hist.last_event)
       => pending' = pending]_vars

\* C35: a 'sent' event, reconstruction included, changes nothing of the user
\* but the sent-item log and the end-of-period vector map: the
\* mandatory-once record and the mission-selection records stay as they are
ReconstructionFrame ==
    [][hist'.sents = hist.sents + 1
       => /\ user'.only_one_rec_already = user.only_one_rec_already
          /\ user'.selected_missions_and_contents = user.selected_missions_and_contents
          /\ user' = [user EXCEPT !.history = user'.history,
                                  !.eow_rec_id_to_fv = user'.eow_rec_id_to_fv,
                                  !.only_one_rec_already = user'.only_one_rec_already]]_vars

\* the same without the mandatory-once record
ReconstructionFrameButOnce ==
    [][hist'.sents = hist.sents + 1
       => user' = [user EXCEPT !.history = user'.history,
                               !.eow_rec_id_to_fv = user'.eow_rec_id_to_fv,
                               !.only_one_rec_already = user'.only_one_rec_already]]_vars

(***************************************************************************)
(* SpecDisable: the batches of a user who is disabled at some point        *)
(***************************************************************************)
\* update({"disabled_users": [u]}): the id leaves active_user_ids, where
\* add_users put it, and the User is marked inactive
disable_users ==
    /\ plan.pc = "idle"
    /\ user.exists /\ user.active
    /\ user' = [user EXCEPT !.active = FALSE]
    /\ UNCHANGED <<binderVars, engine, plan, now, hist>>

NextDisable ==
    \/ ~user.exists /\ add_users
    \/ /\ hist.selections < MaxSelections
       /\ \E m \in Missions, l \in SysLists : apply_mission_selected(m, l)
    \/ disable_users
    \/ hist.raised < MaxRaises /\ SelectContentsBegin
    \/ SlotStep
    \/ SelectContentsEnd
    \/ hist.ticks < MaxTicks /\ Tick(1)

SpecDisable == InitSys /\ [][NextDisable]_vars

\* C36: once the user is disabled no step generates a slate for them or
\* enqueues a planned decision
DisabledReceiveNothing ==
    [][~user.active => (hist'.slates = hist.slates /\ pending' = pending)]_vars

(***************************************************************************)
(* The mandatory-once item in the slot loop                                *)
(***************************************************************************)
\* the user has been given SRc52: a slate produced for the user holds it,
\* or the pass that is running has accepted it
Sr52Given ==
    \/ hist.sr52 >= 1
    \/ \E i \in 1..Len(plan.selected) : plan.selected[i].id = "SRc52"

\* C37 (mandatory-once item forced first): when SRc52 is among the available
\* recommendations of the mission being planned and the user has never been
\* given it, the first recommendation accepted for the mission is SRc52;
\* once given, it is never among the candidates of a slot again.
Sr52ForcedFirstThenNever ==
    [][/\ ( /\ plan.pc = "planning" /\ plan'.pc = "planning"
            /\ Len(plan.selected) = 0 /\ Len(plan'.selected) = 1
            /\ "SRc52" \in plan.avail /\ ~Sr52Given )
          => plan'.selected[1].id = "SRc52"
       /\ ( /\ plan.pc = "planning" /\ plan.slot < plan.numSlots
            /\ FvMapState(user, plan.mission, plan.avail) = "ok"
            /\ Sr52Given )
          => "SRc52" \notin Candidates(plan.avail, user.only_one_rec_already)]_vars

\* the first half alone
Sr52ForcedFirst ==
    [][( /\ plan.pc = "planning" /\ plan'.pc = "planning"
         /\ Len(plan.selected) = 0 /\ Len(plan'.selected) = 1
         /\ "SRc52" \in plan.avail /\ ~Sr52Given )
       => plan'.selected[1].id = "SRc52"]_vars

(***************************************************************************)
(* SpecBeta: BernoulliBetaTS, the bandit of the resources and of the       *)
(* recommendations. engine holds the object: its priors, the dicts alpha   *)
(* and beta, and the last call with the dicts as it found them             *)
(***************************************************************************)
MaxMabUpdates == 3

\* the actions (content ids) the bandit meets and the rewards handed to update
MabActions == {"SRc1", "SRc2", "SRa1"}

MabRewards == {0, 1, 2}

\* alpha_0 and beta_0: 1.0 by default, or the values of the configuration
MabPriors == {1, 2}

NoMabCall == [op |-> "None", action |-> None, reward |-> 0, alpha |-> EmptyDict, beta |-> EmptyDict]

BernoulliBetaTS(alpha_0, beta_0) ==
    [alpha_0 |-> alpha_0, beta_0 |-> beta_0, alpha |-> EmptyDict, beta |-> EmptyDict,
     last |-> NoMabCall]

\* _initialize_action: an action met for the first time gets the priors
initialize_action(mab, action) ==
    IF action \in DOMAIN mab.alpha THEN mab
    ELSE [mab EXCEPT !.alpha = Put(@, action, mab.alpha_0),
                     !.beta = Put(@, action, mab.beta_0)]

\* a variant of update that counts every positive reward as a success
BetaTS_update_positive(mab, action, reward) ==
    LET m == initialize_action(mab, action)
    IN  IF reward >= 1 THEN [m EXCEPT !.alpha[action] = @ + 1]
        ELSE [m EXCEPT !.beta[action] = @ + 1]

\* update: alpha[action] += 1 if reward == 1 else beta[action] += 1
BetaTS_update(mab, action, reward) ==
    LET m == initialize_action(mab, action)
    IN  IF reward = 1 THEN [m EXCEPT !.alpha[action] = @ + 1]
        ELSE [m EXCEPT !.beta[action] = @ + 1]

RECURSIVE initialize_all(_, _)
initialize_all(mab, actions) ==
    IF actions = {} THEN mab
    ELSE LET a == CHOOSE x \in actions : TRUE
         IN  initialize_all(initialize_action(mab, a), actions \ {a})

\* the number of updates the object has taken
MabUpdates(mab) ==
    SumOver([a \in DOMAIN mab.alpha |-> (mab.alpha[a] - mab.alpha_0) + (mab.beta[a] - mab.beta_0)],
            DOMAIN mab.alpha)

InitBeta ==
    /\ pending = [p \in PlanIds |-> << >>]
    /\ proc_map = << >>
    /\ enqLog = << >>
    /\ boundLog = << >>
    /\ user = NoUser
    /\ \E a0 \in MabPriors, b0 \in MabPriors : engine = BernoulliBetaTS(a0, b0)
    /\ plan = IdlePlan
    /\ now = 0
    /\ hist = NoHist

\* select_action(actions): registers every action offered, then samples
mab_select_action(actions) ==
    /\ engine' = [initialize_all(engine, actions) EXCEPT
                     !.last = [op |-> "select_action", action |-> None, reward |-> 0,
                               alpha |-> engine.alpha, beta |-> engine.beta]]
    /\ UNCHANGED <<binderVars, user, plan, now, hist>>

mab_update(action, reward) ==
    /\ MabUpdates(engine) < MaxMabUpdates
    /\ engine' = [BetaTS_update(engine, action, reward) EXCEPT
                     !.last = [op |-> "update", action |-> action, reward |-> reward,
                               alpha |-> engine.alpha, beta |-> engine.beta]]
    /\ UNCHANGED <<binderVars, user, plan, now, hist>>

NextBeta ==
    \/ \E actions \in (SUBSET MabActions) \ {{}} : mab_select_action(actions)
    \/ \E action \in MabActions, reward \in MabRewards : mab_update(action, reward)

SpecBeta == InitBeta /\ [][NextBeta]_vars

\* the value a parameter had before the call: the prior for an action the
\* dict did not hold
ParamBefore(dict, prior, a) == IF a \in DOMAIN dict THEN dict[a] ELSE prior

\* C38 (Beta-Bernoulli update): update(action, reward) raises exactly one
\* parameter of the action by exactly 1, alpha when reward = 1 and beta
\* otherwise, counted from the priors for an action never seen before, and
\* leaves the parameters of every other action as they were.
BetaUpdateFrame ==
    engine.last.op = "update" =>
        LET c == engine.last
            a0 == ParamBefore(c.alpha, engine.alpha_0, c.action)
            b0 == ParamBefore(c.beta, engine.beta_0, c.action)
        IN  /\ c.action \in DOMAIN engine.alpha /\ c.action \in DOMAIN engine.beta
            /\ IF c.reward = 1
               THEN engine.alpha[c.action] = a0 + 1 /\ engine.beta[c.action] = b0
               ELSE engine.alpha[c.action] = a0 /\ engine.beta[c.action] = b0 + 1
            /\ DOMAIN engine.alpha = DOMAIN c.alpha \cup {c.action}
            /\ DOMAIN engine.beta = DOMAIN c.beta \cup {c.action}
            /\ \A x \in DOMAIN c.alpha \ {c.action} :
                   engine.alpha[x] = c.alpha[x] /\ engine.beta[x] = c.beta[x]

\* an update with reward 1 of an action the object had never met, while it
\* holds another action that has taken an update
BetaUpdateFrameWitness ==
    /\ engine.last.op = "update" /\ engine.last.reward = 1
    /\ engine.last.action \notin DOMAIN engine.last.alpha
    /\ \E x \in DOMAIN engine.last.alpha :
           engine.last.beta[x] > engine.beta_0 /\ engine.beta[x] = engine.last.beta[x]
    /\ engine.alpha[engine.last.action] = engine.alpha_0 + 1

(***************************************************************************)
(* SpecSchema: encoding.py under every schema. engine holds the flags of   *)
(* INTERVENTION_MAB_FEATURES that are on and the last vector built. The    *)
(* entries of the vector are the numerators of the encodings               *)
(***************************************************************************)
MaxFlips == 2

PILLARS == <<"smoking", "alcohol", "nutrition", "physical_activity", "emotional_wellbeing">>

\* INTERVENTION_TYPES, by position
INTERVENTION_TYPES == <<1, 2, 3, 4, 5, 6, 7, 8>>

PERSONAL_DATA_FEATURES == <<"gender", "userAge", "education", "recruitmentCenter">>

PERSONAL_DATA_CATEGORICAL_FEATURES ==
    [gender |-> <<"female", "male", "decline", "other">>,
     recruitmentCenter |-> <<"IEO", "ICO", "UMFCD", "UNIPA">>,
     education |-> <<"no-education", "primary", "secondary", "vocational", "university",
                     "postgraduate", "other">>]

CATEGORICAL_TO_NUMERIC == {"education", "gender"}

LEAVE_OUT_VARS ==
    [recruitmentCenter |-> {"IEO"}, education |-> {"other"}, pillar |-> {"smoking"}]

FREQUENCY_FEATURE_DEGREES == [MF |-> 1, TF |-> 1, RF |-> 1] @@ ("IF" :> 1)

\* the keys of INTERVENTION_MAB_FEATURES that config.py sets to True
INTERVENTION_MAB_FEATURES ==
    {"D", "H", "ND", "P", "MF", "TF", "IT", "NIT", "IF", "RF", "PR",
     "MF_x_RF_sched", "MF_x_IF_sched", "AGEc_x_RF_sched", "AGEc_x_IT"}

\* the keys of BASE_LABELS, in the order of the dict
BaseKeys ==
    <<"D", "H", "Hc", "ND", "P", "MF", "TF", "IT", "NIT", "IF", "RF", "ER", "PR", "MS">>

CustomKeys ==
    <<"MF_x_TF_sched", "MF_x_RF_sched", "MF_x_IF_sched", "NIT_x_IF_sched",
      "AGEc_x_RF_sched", "AGEc_x_IT", "HHS_c_x_RF_sched", "HHS_c_x_IT">>

INTERACTION_PAIRS ==
    << <<"D_H", "D", "H">>, <<"D_P", "D", "P">>, <<"D_IT", "D", "IT">>,
       <<"D_MF", "D", "MF">>, <<"D_TF", "D", "TF">>, <<"D_IF", "D", "IF">>,
       <<"D_RF", "D", "RF">>, <<"P_IT", "P", "IT">>, <<"P_MF", "P", "MF">>,
       <<"P_TF", "P", "TF">>, <<"P_IF", "P", "IF">>, <<"I_IF", "IT", "IF">>,
       <<"I_RF", "IT", "RF">> >>

AllFlags ==
    Range(BaseKeys) \cup Range(CustomKeys)
        \cup {INTERACTION_PAIRS[i][1] : i \in 1..Len(INTERACTION_PAIRS)}

\* the list without the values of `out`, in order
RECURSIVE Without(_, _)
Without(s, out) ==
    IF s = << >> THEN << >>
    ELSE (IF Head(s) \in out THEN << >> ELSE <<Head(s)>>) \o Without(Tail(s), out)

\* position of v in the list, 0 when it is not there
IndexOf(s, v) ==
    IF \E i \in 1..Len(s) : s[i] = v THEN CHOOSE i \in 1..Len(s) : s[i] = v /\ \A j \in 1..(i - 1) : s[j] # v
    ELSE 0

\* the concatenation of f[k] over the keys of the list, in order
RECURSIVE ExtendAll(_, _)
ExtendAll(keys, f) ==
    IF keys = << >> THEN << >> ELSE f[Head(keys)] \o ExtendAll(Tail(keys), f)

one_hot_encode(value, all_values) ==
    [i \in 1..Len(all_values) |-> IF value = all_values[i] THEN 1 ELSE 0]

\* [(v**d - min**d) / (max**d - min**d) for d in range(1, degree + 1)] of the
\* clipped value, by its numerators
encode_frequency(v, degree, min_val) == [d \in 1..degree |-> v^d - min_val^d]

\* the values a categorical feature keeps
KeptValues(feature) ==
    Without(PERSONAL_DATA_CATEGORICAL_FEATURES[feature],
            IF feature \in DOMAIN LEAVE_OUT_VARS THEN LEAVE_OUT_VARS[feature] ELSE {})

\* the entries one feature adds to the encoding: one_hot for a categorical
\* feature outside CATEGORICAL_TO_NUMERIC (zeros for a value that is not
\* kept), one number otherwise (50 of 100 for a missing value)
personal_feature_encoding(personal_data, feature) ==
    IF feature \in DOMAIN PERSONAL_DATA_CATEGORICAL_FEATURES
    THEN IF feature \in CATEGORICAL_TO_NUMERIC
         THEN IF feature \notin DOMAIN personal_data THEN <<50>>
              ELSE IF feature = "gender"
              THEN << CASE personal_data[feature] = "female" -> 0
                        [] personal_data[feature] = "male" -> 100
                        [] OTHER -> 50 >>
              ELSE IF IndexOf(KeptValues(feature), personal_data[feature]) = 0 THEN <<50>>
              ELSE << ((IndexOf(KeptValues(feature), personal_data[feature]) - 1) * 100)
                         \div (Len(KeptValues(feature)) - 1) >>
         ELSE IF \/ feature \notin DOMAIN personal_data
                 \/ IndexOf(KeptValues(feature), personal_data[feature]) = 0
              THEN [i \in 1..Len(KeptValues(feature)) |-> 0]
              ELSE one_hot_encode(personal_data[feature], KeptValues(feature))
    ELSE IF feature \notin DOMAIN personal_data THEN <<50>>
    ELSE << ((Clip(personal_data[feature], 45, 80) - 45) * 100) \div 35 >>

get_personal_data_encoding(personal_data) ==
    ExtendAll(PERSONAL_DATA_FEATURES,
              [f \in Range(PERSONAL_DATA_FEATURES) |->
                   personal_feature_encoding(personal_data, f)])

get_personal_data_labels ==
    ExtendAll(PERSONAL_DATA_FEATURES,
              [f \in Range(PERSONAL_DATA_FEATURES) |->
                   IF f \in DOMAIN PERSONAL_DATA_CATEGORICAL_FEATURES /\ f \notin CATEGORICAL_TO_NUMERIC
                   THEN KeptValues(f) ELSE <<f>>])

BASE_LABELS ==
    [D |-> get_personal_data_labels,
     H |-> PILLARS,
     Hc |-> <<"hhs_current">>,
     ND |-> <<"num_intervention_days">>,
     P |-> Without(PILLARS, LEAVE_OUT_VARS["pillar"]),
     MF |-> <<"mission_frequency">>,
     TF |-> <<"TF_past", "TF_sched">>,
     IT |-> INTERVENTION_TYPES,
     NIT |-> <<"num_int_types">>,
     RF |-> <<"RF_past", "RF_sched">>,
     ER |-> <<"engagement_rate_past">>,
     PR |-> <<"prompted">>,
     MS |-> <<"prev_mission_score">>] @@ ("IF" :> <<"IF_past", "IF_sched">>)

BASE_DIMENSIONS == [k \in DOMAIN BASE_LABELS |-> Len(BASE_LABELS[k])]

\* itertools.product(A, B) through op, the first list outermost
Product(A, B, op(_, _)) ==
    [k \in 1..(Len(A) * Len(B)) |->
        op(A[((k - 1) \div Len(B)) + 1], B[((k - 1) % Len(B)) + 1])]

Times(x, y) == x * y

Joined(la, lb) == <<la, lb>>

\* the pairs of the cartesian families that are on, in the order of the dict
RECURSIVE PairsOn(_, _)
PairsOn(pairs, flags) ==
    IF pairs = << >> THEN << >>
    ELSE (IF Head(pairs)[1] \in flags THEN <<Head(pairs)>> ELSE << >>)
         \o PairsOn(Tail(pairs), flags)

RECURSIVE SumDims(_, _)
SumDims(keys, dims) ==
    IF keys = << >> THEN 0 ELSE dims[Head(keys)] + SumDims(Tail(keys), dims)

RECURSIVE SumPairDims(_, _)
SumPairDims(pairs, dims) ==
    IF pairs = << >> THEN 0
    ELSE dims[Head(pairs)[2]] * dims[Head(pairs)[3]] + SumPairDims(Tail(pairs), dims)

\* the keys of the list that are on
RECURSIVE KeysOn(_, _)
KeysOn(keys, flags) ==
    IF keys = << >> THEN << >>
    ELSE (IF Head(keys) \in flags THEN <<Head(keys)>> ELSE << >>) \o KeysOn(Tail(keys), flags)

get_intervention_feature_vector_labels(flags) ==
    LET custom == [k \in Range(CustomKeys) |->
                      IF k \in {"AGEc_x_IT", "HHS_c_x_IT"}
                      THEN [i \in 1..Len(INTERVENTION_TYPES) |-> <<k, INTERVENTION_TYPES[i]>>]
                      ELSE <<k>>]
        on == PairsOn(INTERACTION_PAIRS, flags)
        pairs == [i \in 1..Len(on) |->
                     Product(BASE_LABELS[on[i][2]], BASE_LABELS[on[i][3]], Joined)]
    IN  <<"bias">> \o ExtendAll(KeysOn(BaseKeys, flags), BASE_LABELS)
                   \o ExtendAll(KeysOn(CustomKeys, flags), custom)
                   \o ExtendAll([i \in 1..Len(on) |-> i], pairs)

\* a count that takes the pillar block at the length of PILLARS
get_dim_all_pillars(flags) ==
    LET dims == [BASE_DIMENSIONS EXCEPT !["P"] = Len(PILLARS)]
        custom == [k \in Range(CustomKeys) |->
                      IF k \in {"AGEc_x_IT", "HHS_c_x_IT"} THEN Len(INTERVENTION_TYPES) ELSE 1]
    IN  1 + SumDims(KeysOn(BaseKeys, flags), dims)
          + SumDims(KeysOn(CustomKeys, flags), custom)
          + SumPairDims(PairsOn(INTERACTION_PAIRS, flags), dims)

get_dim_intervention_feature_vector(flags) ==
    LET dims == BASE_DIMENSIONS
        custom == [k \in Range(CustomKeys) |->
                      IF k \in {"AGEc_x_IT", "HHS_c_x_IT"} THEN Len(INTERVENTION_TYPES) ELSE 1]
    IN  1 + SumDims(KeysOn(BaseKeys, flags), dims)
          + SumDims(KeysOn(CustomKeys, flags), custom)
          + SumPairDims(PairsOn(INTERACTION_PAIRS, flags), dims)

\* get_encodings: the fourteen blocks. x carries personal_data (a feature
\* without a value is no key of it), hhs (one
\* score for every pillar), pillar, the intervention types of the item and
\* the counts
get_encodings(x) ==
    [D |-> get_personal_data_encoding(x.personal_data),
     H |-> [i \in 1..Len(PILLARS) |-> x.hhs],
     Hc |-> <<x.hhs>>,
     ND |-> <<get_num_intervention_days_encoding(x.days)>>,
     P |-> one_hot_encode(x.pillar, Without(PILLARS, LEAVE_OUT_VARS["pillar"])),
     MF |-> encode_frequency(Clip(x.mf, 1, MF_MAX), FREQUENCY_FEATURE_DEGREES["MF"], 1),
     TF |-> encode_frequency(get_total_frequency_encoding(x.tf, FALSE),
                             FREQUENCY_FEATURE_DEGREES["TF"], 0)
            \o encode_frequency(get_total_frequency_encoding(x.tf, TRUE),
                                FREQUENCY_FEATURE_DEGREES["TF"], 0),
     IT |-> [i \in 1..Len(INTERVENTION_TYPES) |->
                IF INTERVENTION_TYPES[i] \in x.intervention THEN 1 ELSE 0],
     NIT |-> <<Cardinality(x.intervention)>>,
     RF |-> encode_frequency(get_recommendation_frequency_encoding(x.tf, FALSE),
                             FREQUENCY_FEATURE_DEGREES["RF"], 0)
            \o encode_frequency(get_recommendation_frequency_encoding(x.tf, TRUE),
                                FREQUENCY_FEATURE_DEGREES["RF"], 0),
     ER |-> <<0>>,
     PR |-> <<get_prompted_encoding(x.prompted)>>,
     MS |-> <<0>>]
    @@ ("IF" :> encode_frequency(get_intervention_frequency_encoding(x.tf, FALSE),
                                 FREQUENCY_FEATURE_DEGREES["IF"], 0)
                \o encode_frequency(get_intervention_frequency_encoding(x.tf, TRUE),
                                    FREQUENCY_FEATURE_DEGREES["IF"], 0))

\* get_pillar_encoding and get_intervention_encoding raise ValueError
encoding_raises(x) ==
    \/ x.pillar \notin Range(PILLARS)
    \/ ~(x.intervention \subseteq Range(INTERVENTION_TYPES))

\* get_intervention_feature_vector under the flags: bias, the base blocks
\* that are on, the custom interactions, the cartesian families
intervention_feature_vector(flags, x) ==
    LET b == get_encodings(x)
        TF_sched == b.TF[2]
        RF_sched == b.RF[2]
        IF_sched == b["IF"][2]
        age_c == b.D[IndexOf(BASE_LABELS["D"], "userAge")] - 50
        hhs_c == b.H[IndexOf(PILLARS, x.pillar)] - 50
        custom == [k \in Range(CustomKeys) |->
                     CASE k = "MF_x_TF_sched" -> <<b.MF[1] * TF_sched>>
                       [] k = "MF_x_RF_sched" -> <<b.MF[1] * RF_sched>>
                       [] k = "MF_x_IF_sched" -> <<b.MF[1] * IF_sched>>
                       [] k = "NIT_x_IF_sched" -> <<b.NIT[1] * IF_sched>>
                       [] k = "AGEc_x_RF_sched" -> <<age_c * RF_sched>>
                       [] k = "AGEc_x_IT" -> [i \in 1..Len(b.IT) |-> age_c * b.IT[i]]
                       [] k = "HHS_c_x_RF_sched" -> <<hhs_c * RF_sched>>
                       [] k = "HHS_c_x_IT" -> [i \in 1..Len(b.IT) |-> hhs_c * b.IT[i]]]
        on == PairsOn(INTERACTION_PAIRS, flags)
        pairs == [i \in 1..Len(on) |-> Product(b[on[i][2]], b[on[i][3]], Times)]
    IN  <<1>> \o ExtendAll(KeysOn(BaseKeys, flags), b)
              \o ExtendAll(KeysOn(CustomKeys, flags), custom)
              \o ExtendAll([i \in 1..Len(on) |-> i], pairs)

\* the schemas: config.py's with up to MaxFlips flags switched, every flag
\* on, every flag off
RECURSIVE Flips(_)
Flips(k) ==
    IF k = 0 THEN {{}} ELSE {s \cup {f} : s \in Flips(k - 1), f \in AllFlags} \cup Flips(k - 1)

Schemas ==
    {(INTERVENTION_MAB_FEATURES \ s) \cup (s \ INTERVENTION_MAB_FEATURES) : s \in Flips(MaxFlips)}
        \cup {AllFlags, {}}

\* the inputs of a call
SchemaInputs ==
    [personal_data : [gender : {"male"}, userAge : {60}, education : {"primary"},
                      recruitmentCenter : {"IEO", "UNIPA"}]
                         \cup [gender : {"other"}, education : {"other"}],
     hhs : {70}, days : {10}, pillar : {"smoking", "nutrition", "sleep"},
     mf : {3}, tf : {2}, intervention : {{}, {1, 6}, {9}}, prompted : {TRUE}]

NoVector == [called |-> FALSE, ok |-> FALSE, fv |-> << >>, x |-> None]

InitSchema ==
    /\ pending = [p \in PlanIds |-> << >>]
    /\ proc_map = << >>
    /\ enqLog = << >>
    /\ boundLog = << >>
    /\ user = NoUser
    /\ \E flags \in Schemas : engine = [features |-> flags, last |-> NoVector]
    /\ plan = IdlePlan
    /\ now = 0
    /\ hist = NoHist

\* the call of get_intervention_feature_vector the behaviour looks at
build_feature_vector(x) ==
    /\ ~engine.last.called
    /\ engine' = [engine EXCEPT !.last =
                     IF encoding_raises(x)
                     THEN [called |-> TRUE, ok |-> FALSE, fv |-> << >>, x |-> x]
                     ELSE [called |-> TRUE, ok |-> TRUE,
                           fv |-> intervention_feature_vector(engine.features, x), x |-> x]]
    /\ UNCHANGED <<binderVars, user, plan, now, hist>>

NextSchema == \E x \in SchemaInputs : build_feature_vector(x)

SpecSchema == InitSchema /\ [][NextSchema]_vars

\* C39 (dimensionality from the schema): under every assignment of the
\* block and interaction flags, every vector get_intervention_feature_vector
\* returns has get_dim_intervention_feature_vector() entries, as many as
\* get_intervention_feature_vector_labels() has labels.
DimFromSchema ==
    (engine.last.called /\ engine.last.ok) =>
        /\ Len(engine.last.fv) = get_dim_intervention_feature_vector(engine.features)
        /\ Len(engine.last.fv) = Len(get_intervention_feature_vector_labels(engine.features))

\* a vector built under a schema that is not config.py's: a cartesian
\* family and the pillar block on, a base block of config.py off
DimFromSchemaWitness ==
    /\ engine.last.called /\ engine.last.ok
    /\ "D_P" \in engine.features /\ "P" \in engine.features /\ "IT" \notin engine.features
    /\ Len(engine.last.fv) = get_dim_intervention_feature_vector(engine.features)
    /\ Len(engine.last.fv) > Len(BaseKeys)

\* C40 (switching to FROZEN freezes at the present): after set_mode(FROZEN)
\* in REAL mode, with no time-set call before it, now is the wall clock of
\* the moment of the switch.
FreezesAtPresent ==
    [][(now.mode = REAL /\ now'.mode = FROZEN /\ hist.last_set.op = "None")
       => TimeHandler_now(now') = <<now'.wall, 0>>]_vars

====
